---- MODULE Spec2Model ----
(***************************************************************************)
(* SID ubridge: the observer/worker pool and the command pipeline of       *)
(* ubridge.c, as a state machine.                                          *)
(*                                                                         *)
(* Parent process: the ubridge resource with its observer children.        *)
(* Worker processes: one per observer, each with its own event loop, its   *)
(* connection buffer and its command children.                             *)
(* Every action is one event-loop handler run to completion.               *)
(***************************************************************************)
EXTENDS Integers, Sequences, FiniteSets, TLC

(***************************************************************************)
(* Bounds of the model.                                                    *)
(***************************************************************************)
\* worker processes the ubridge may fork in one run
MaxWorkers == 2
\* client connections made to the listening socket in one run
MaxConns == 2
\* request frames a client sends on one connection
MaxFrames == 1
\* entries in the payload of an identify request
MaxEntries == 2
\* forks that fail
MaxForkFailures == 1
\* resources ever created in the tree of the resource runs
MaxNodes == 4

(***************************************************************************)
(* Program constants.                                                      *)
(***************************************************************************)
UBRIDGE_PROTOCOL == 1
INTERNAL_COMMS_CMD_RUNNING == 1
INTERNAL_COMMS_CMD_IDLE == 2
COMMAND_STATUS_MASK_OVERALL == 1
COMMAND_STATUS_SUCCESS == 0
COMMAND_STATUS_FAILURE == 1
EINVAL == 22
\* sizeof(uint32_t), the size prefix of a frame
MSG_SIZE_PREFIX_LEN == 4
\* sizeof(struct raw_command_header), packed: u8 + u8 + u64
RAW_COMMAND_HEADER_LEN == 10
\* sizeof(struct version), packed: 3 x u16
VERSION_LEN == 6
\* the compiled version (configure.h)
SID_VERSION_MAJOR == 0
SID_VERSION_MINOR == 1
SID_VERSION_RELEASE == 258

\* worker_state_t
WORKER_IDLE == "WORKER_IDLE"
WORKER_INIT == "WORKER_INIT"
WORKER_RUNNING == "WORKER_RUNNING"
WORKER_FINI == "WORKER_FINI"

\* command_t
CMD_START == 0
CMD_UNKNOWN == 0
CMD_REPLY == 1
CMD_VERSION == 2
CMD_IDENTIFY == 3
CMD_CHECKPOINT == 4
CMD_END == 5

\* cmd_ident_phase_t
CMD_IDENT_PHASE_START == 0
CMD_IDENT_PHASE_IDENT == 0
CMD_IDENT_PHASE_SCAN_PRE == 1
CMD_IDENT_PHASE_SCAN_CORE_CURRENT == 2
CMD_IDENT_PHASE_SCAN_CORE_NEXT_BASIC == 3
CMD_IDENT_PHASE_SCAN_CORE_NEXT_EXTENDED == 4
CMD_IDENT_PHASE_SCAN_POST == 5
CMD_IDENT_PHASE_END == 5
CMD_IDENT_PHASE_TRIGGER_ACTION_CURRENT == 6
CMD_IDENT_PHASE_TRIGGER_ACTION_NEXT == 7
CMD_IDENT_PHASE_ERROR == 8

(***************************************************************************)
(* C strings: a string is the sequence of its characters, without the      *)
(* terminating NUL; a byte area (the raw udev environment) is a sequence   *)
(* of characters in which NUL is a character of its own.                   *)
(***************************************************************************)
NUL == "NUL"
\* a NULL char pointer (no value sequence contains this element)
NULLSTR == <<"(null)">>

CharAt(s, i) == IF i \in 1..Len(s) THEN s[i] ELSE NUL

\* strchr/memchr: 1-based index of the first ch in s, 0 when there is none
IndexOf(s, ch) ==
    IF \E i \in 1..Len(s) : s[i] = ch
    THEN CHOOSE i \in 1..Len(s) : s[i] = ch /\ \A j \in 1..(i - 1) : s[j] # ch
    ELSE 0

\* strncmp(a, b, n) == 0: at most n characters compared, stopping after a NUL
StrNCmpEq(a, b, n) ==
    \A i \in 1..n :
        (\A j \in 1..(i - 1) : CharAt(a, j) # NUL) => CharAt(a, i) = CharAt(b, i)

Digits == <<"0", "1", "2", "3", "4", "5", "6", "7", "8", "9">>
IsDigit(c) == \E d \in 1..10 : Digits[d] = c
DigitVal(c) == (CHOOSE d \in 1..10 : Digits[d] = c) - 1

\* value of the longest prefix of s made of digits of the base, from acc
RECURSIVE ParseDigits(_, _, _)
ParseDigits(s, base, acc) ==
    IF s = <<>> \/ ~IsDigit(Head(s)) THEN acc
    ELSE IF DigitVal(Head(s)) >= base THEN acc
    ELSE ParseDigits(Tail(s), base, acc * base + DigitVal(Head(s)))

\* atoi(3): optional sign, then decimal digits up to the first other character
atoi(s) ==
    IF s # <<>> /\ Head(s) = "-" THEN 0 - ParseDigits(Tail(s), 10, 0)
    ELSE ParseDigits(s, 10, 0)

\* strtoull(3) with endptr NULL: base 0 reads decimal here (no 0/0x prefixed
\* input is modelled), bases 2..36 read the digits of that base, any other
\* base is an error and gives 0
strtoull(s, base) ==
    IF base = 0 THEN ParseDigits(s, 10, 0)
    ELSE IF base < 2 \/ base > 36 THEN 0
    ELSE ParseDigits(s, base, 0)

(***************************************************************************)
(* Device record and the decoding of the udev environment.                 *)
(***************************************************************************)
\* udev_action_t (util.h): the table of util_get_udev_action_from_string
UdevActionNames ==
    << <<"a","d","d">>, <<"r","e","m","o","v","e">>, <<"c","h","a","n","g","e">>,
       <<"m","o","v","e">>, <<"o","n","l","i","n","e">>, <<"o","f","f","l","i","n","e">>,
       <<"b","i","n","d">>, <<"u","n","b","i","n","d">> >>
UdevActions ==
    <<"UDEV_ACTION_ADD", "UDEV_ACTION_REMOVE", "UDEV_ACTION_CHANGE", "UDEV_ACTION_MOVE",
      "UDEV_ACTION_ONLINE", "UDEV_ACTION_OFFLINE", "UDEV_ACTION_BIND", "UDEV_ACTION_UNBIND">>
UDEV_ACTION_UNKNOWN == "UDEV_ACTION_UNKNOWN"
\* the action field of a zeroed struct device, before any ACTION entry
UDEV_ACTION_ZEROED == "UDEV_ACTION_ZEROED"

util_get_udev_action_from_string(value) ==
    IF \E a \in 1..Len(UdevActionNames) : UdevActionNames[a] = value
    THEN UdevActions[CHOOSE a \in 1..Len(UdevActionNames) : UdevActionNames[a] = value]
    ELSE UDEV_ACTION_UNKNOWN

\* struct device after zalloc (raw_udev_env is kept in the command record)
ZeroedDevice ==
    [action |-> UDEV_ACTION_ZEROED, major |-> 0, minor |-> 0, name |-> NULLSTR,
     type |-> NULLSTR, seqnum |-> 0, synth_uuid |-> NULLSTR]

KEY_ACTION == <<"A","C","T","I","O","N">>
KEY_DEVNAME == <<"D","E","V","N","A","M","E">>
KEY_DEVTYPE == <<"D","E","V","T","Y","P","E">>
KEY_MAJOR == <<"M","A","J","O","R">>
KEY_MINOR == <<"M","I","N","O","R">>
KEY_SEQNUM == <<"S","E","Q","N","U","M">>
KEY_SYNTH_UUID == <<"S","Y","N","T","H","_","U","U","I","D">>

\* the base _device_add_field hands to strtoull for a SEQNUM entry
SeqnumBase(key_len) == key_len

\* does the entry name the field? strncmp over the first key_len characters
KeyMatches(key, name, key_len) == StrNCmpEq(key, name, key_len)

\* _device_add_field: key is one NUL-terminated entry of the environment.
\* Gives [r, dev]: r = -1 when the entry has no '=', else 0 and the field set.
_device_add_field(dev, key) ==
    LET eq == IndexOf(key, "=")
        value == SubSeq(key, eq + 1, Len(key))
        key_len == eq - 1
    IN  IF eq = 0 THEN [r |-> -1, dev |-> dev]
        ELSE [r |-> 0,
              dev |->
                IF KeyMatches(key, KEY_ACTION, key_len)
                THEN [dev EXCEPT !.action = util_get_udev_action_from_string(value)]
                ELSE IF KeyMatches(key, KEY_DEVNAME, key_len)
                THEN [dev EXCEPT !.name = value]
                ELSE IF KeyMatches(key, KEY_DEVTYPE, key_len)
                THEN [dev EXCEPT !.type = value]
                ELSE IF KeyMatches(key, KEY_MAJOR, key_len)
                THEN [dev EXCEPT !.major = atoi(value)]
                ELSE IF KeyMatches(key, KEY_MINOR, key_len)
                THEN [dev EXCEPT !.minor = atoi(value)]
                ELSE IF KeyMatches(key, KEY_SEQNUM, key_len)
                THEN [dev EXCEPT !.seqnum = strtoull(value, SeqnumBase(key_len))]
                ELSE IF KeyMatches(key, KEY_SYNTH_UUID, key_len)
                THEN [dev EXCEPT !.synth_uuid = value]
                ELSE dev]

\* _parse_cmd_nullstr_udev_env from offset i (0-based, as in the code) over
\* env, the raw_udev_env_len bytes of the payload. Gives [r, dev].
RECURSIVE ParseFrom(_, _, _)
ParseFrom(env, i, dev) ==
    IF ~(i < Len(env)) THEN [r |-> 0, dev |-> dev]
    ELSE LET rest == SubSeq(env, i + 1, Len(env))
             delim == IndexOf(rest, NUL)
         IN  IF delim = 0 THEN [r |-> 0 - EINVAL, dev |-> dev]
             ELSE LET f == _device_add_field(dev, SubSeq(rest, 1, delim - 1))
                  IN  IF f.r < 0 THEN [r |-> 0 - EINVAL, dev |-> f.dev]
                      ELSE ParseFrom(env, i + delim, f.dev)

_parse_cmd_nullstr_udev_env(env, dev) == ParseFrom(env, 0, dev)

\* _init_device: [r, dev], r = -1 when the environment does not parse
_init_device(env, dev) ==
    LET p == _parse_cmd_nullstr_udev_env(env, dev)
    IN  [r |-> IF p.r < 0 THEN -1 ELSE 0, dev |-> p.dev]


(***************************************************************************)
(* Frames. A frame on the wire is its 4-byte size prefix (the length of    *)
(* the whole frame), the packed header and the payload.                    *)
(***************************************************************************)
\* struct raw_command_header
RawCommandHeader(protocol, cmd_number, status) ==
    [protocol |-> protocol, cmd_number |-> cmd_number, status |-> status]

\* a well-formed frame: the prefix counts prefix, header and payload
Frame(protocol, cmd_number, status, payload) ==
    [len |-> MSG_SIZE_PREFIX_LEN + RAW_COMMAND_HEADER_LEN + Len(payload),
     header |-> RawCommandHeader(protocol, cmd_number, status),
     payload |-> payload]

\* no frame: the content of an empty buffer
NoFrame == [len |-> 0, header |-> RawCommandHeader(0, 0, 0), payload |-> <<>>]

\* a uint16_t in memory, least significant byte first
U16LE(x) == <<x % 256, (x \div 256) % 256>>

(***************************************************************************)
(* Framed buffer (buffer.c): the operations ubridge.c relies on.           *)
(***************************************************************************)
\* a uint32_t on the wire, most significant byte first
U32BE(x) ==
    <<(x \div 16777216) % 256, (x \div 65536) % 256, (x \div 256) % 256, x % 256>>

\* the uint32_t that four bytes hold, most significant byte first
U32BEValue(b) == ((b[1] * 256 + b[2]) * 256 + b[3]) * 256 + b[4]

\* the four bytes at offset 0 of a reader buffer: those bytes of the size
\* prefix of the frame that were read, zero where nothing was read yet
BufferPrefix(buf) ==
    [i \in 1..MSG_SIZE_PREFIX_LEN |->
        IF i <= buf.used THEN U32BE(buf.data.len)[i] ELSE 0]

\* buffer_is_complete on a size-prefixed buffer holding `used` bytes of a frame
buffer_is_complete(buf) ==
    buf.used >= MSG_SIZE_PREFIX_LEN /\ buf.used >= U32BEValue(BufferPrefix(buf))

\* a buffer with nothing in it
EmptyBuffer == [used |-> 0, data |-> NoFrame]

\* buffer_reset(buf, 0)
buffer_reset(buf) == EmptyBuffer

\* buffer_write of a vector buffer in size-prefix mode: the iovec entries are
\* references, so the header goes out as it is at the time of the write
buffer_write(response_header, data) ==
    [len |-> MSG_SIZE_PREFIX_LEN + RAW_COMMAND_HEADER_LEN + Len(data),
     header |-> response_header,
     payload |-> data]

(***************************************************************************)
(* Commands.                                                               *)
(***************************************************************************)
Phases == CMD_IDENT_PHASE_START..CMD_IDENT_PHASE_END

\* _cmd_ident_phase_regs: the names, by phase
_cmd_ident_phase_regs ==
    [p \in Phases |->
        CASE p = CMD_IDENT_PHASE_IDENT -> "ident"
          [] p = CMD_IDENT_PHASE_SCAN_PRE -> "scan-pre"
          [] p = CMD_IDENT_PHASE_SCAN_CORE_CURRENT -> "scan-core-current"
          [] p = CMD_IDENT_PHASE_SCAN_CORE_NEXT_BASIC -> "scan-core-next-basic"
          [] p = CMD_IDENT_PHASE_SCAN_CORE_NEXT_EXTENDED -> "scan-core-next-extended"
          [] p = CMD_IDENT_PHASE_SCAN_POST -> "scan-post"]

\* what the six phase functions of the source return
StubPhaseRets == [p \in Phases |-> 0]

\* the last phase the loop of _cmd_execute_identify runs
LastPhase == CMD_IDENT_PHASE_END

\* (mutant) a failed phase does not end the sequence
PhaseFailed_Never(r) == FALSE

\* does the loop give up after a phase that returned r?
PhaseFailed(r) == r < 0

\* the loop of _cmd_execute_identify from `phase` on; rets[p] is what phase p's
\* execute returns. Gives [r, phases]: the result, and the phases executed,
\* each with what it returned.
RECURSIVE RunPhases(_, _, _, _)
RunPhases(phase, r, rets, log) ==
    IF ~(phase <= LastPhase) THEN [r |-> r, phases |-> log]
    ELSE LET pr == rets[phase]
             log1 == Append(log, [phase |-> phase, ret |-> pr])
         IN  IF PhaseFailed(pr) THEN [r |-> pr, phases |-> log1]
             ELSE RunPhases(phase + 1, pr, rets, log1)

\* the value of r after `r = _init_device(cmd_res) < 0`
InitDeviceResult(ret) == IF ret < 0 THEN 1 ELSE 0

\* the execute functions: [fn, r, dev, data, phases] for a command record;
\* fn names the function, data is what it adds to the result buffer
_cmd_execute_unknown(cmd, rets) ==
    [fn |-> "unknown", r |-> 0, dev |-> cmd.dev, data |-> <<>>, phases |-> <<>>]

_cmd_execute_reply(cmd, rets) ==
    [fn |-> "reply", r |-> 0, dev |-> cmd.dev, data |-> <<>>, phases |-> <<>>]

\* (mutant) the release number is left out
_cmd_execute_version_NoRelease(cmd, rets) ==
    [fn |-> "version", r |-> 0, dev |-> cmd.dev,
     data |-> U16LE(SID_VERSION_MAJOR) \o U16LE(SID_VERSION_MINOR),
     phases |-> <<>>]

_cmd_execute_version(cmd, rets) ==
    [fn |-> "version", r |-> 0, dev |-> cmd.dev,
     data |-> U16LE(SID_VERSION_MAJOR) \o U16LE(SID_VERSION_MINOR) \o U16LE(SID_VERSION_RELEASE),
     phases |-> <<>>]

_cmd_execute_identify(cmd, rets) ==
    LET init == _init_device(cmd.raw_udev_env, cmd.dev)
        r0 == InitDeviceResult(init.r)
    IN  IF r0 # 0
        THEN [fn |-> "identify", r |-> r0, dev |-> init.dev, data |-> <<>>, phases |-> <<>>]
        ELSE LET run == RunPhases(CMD_IDENT_PHASE_START, r0, rets, <<>>)
             IN  [fn |-> "identify", r |-> run.r, dev |-> init.dev, data |-> <<>>,
                  phases |-> run.phases]

_cmd_execute_checkpoint(cmd, rets) ==
    [fn |-> "checkpoint", r |-> 0, dev |-> cmd.dev, data |-> <<>>, phases |-> <<>>]

\* _command_regs: the names, by command number
_command_regs ==
    [t \in CMD_START..(CMD_END - 1) |->
        CASE t = CMD_UNKNOWN -> "unknown"
          [] t = CMD_REPLY -> "reply"
          [] t = CMD_VERSION -> "version"
          [] t = CMD_IDENTIFY -> "identify"
          [] t = CMD_CHECKPOINT -> "checkpoint"]

\* _command_regs[n].name; an index outside the table reads past its end
CommandName(n) == IF n \in DOMAIN _command_regs THEN _command_regs[n] ELSE "(past the table)"

\* _command_regs[type].execute(cmd_res); an index outside the table has no
\* entry to call and is given the result of no command at all
Execute(type, cmd, rets) ==
    CASE type = CMD_UNKNOWN -> _cmd_execute_unknown(cmd, rets)
      [] type = CMD_REPLY -> _cmd_execute_reply(cmd, rets)
      [] type = CMD_VERSION -> _cmd_execute_version(cmd, rets)
      [] type = CMD_IDENTIFY -> _cmd_execute_identify(cmd, rets)
      [] type = CMD_CHECKPOINT -> _cmd_execute_checkpoint(cmd, rets)
      [] OTHER -> [fn |-> "(past the table)", r |-> -1, dev |-> cmd.dev, data |-> <<>>,
                   phases |-> <<>>]

\* (mutant) the upper test is off by one: __CMD_END itself gets through
SanitizeCmdNumber_OffByOne(n) == IF n <= CMD_START \/ n > CMD_END THEN CMD_UNKNOWN ELSE n

\* the sanitising of the command number in _on_worker_conn_event
SanitizeCmdNumber(n) == IF n <= CMD_START \/ n >= CMD_END THEN CMD_UNKNOWN ELSE n

\* (mutant) the current protocol itself is refused
ProtocolSupported_Strict(protocol) == protocol < UBRIDGE_PROTOCOL

\* is the command executed at all? (the protocol test of _cmd_handler)
ProtocolSupported(protocol) == protocol <= UBRIDGE_PROTOCOL

\* the cmd_number _cmd_handler leaves in the response header
ResponseCmdNumber == 0

\* the status of the response header after `if (r < 0) status |= FAILURE`
ResponseStatus(r) == IF r < 0 THEN COMMAND_STATUS_FAILURE ELSE 0

\* _cmd_handler on a command record: [r, executed, x, response]; x is the
\* result of the execute function (meaningful when executed)
_cmd_handler(cmd, rets) ==
    LET executed == ProtocolSupported(cmd.protocol)
        x == Execute(cmd.type, cmd, rets)
        r == IF executed THEN x.r ELSE -1
        response_header ==
            RawCommandHeader(IF executed THEN cmd.protocol ELSE 0,
                             ResponseCmdNumber, ResponseStatus(r))
    IN  [r |-> r, executed |-> executed, x |-> x,
         response |-> buffer_write(response_header, IF executed THEN x.data ELSE <<>>)]

(***************************************************************************)
(* size_t. A 64-bit unsigned value is held as its four 16-bit limbs, most  *)
(* significant first, so that the arithmetic keeps its width.              *)
(***************************************************************************)
SIZE_LIMB == 65536

\* the size_t of a number below 2^16
SizeT(n) == <<0, 0, 0, n>>

\* a - b in size_t for b below 2^16, b taken off at limb i: a borrow off the
\* most significant limb is lost (the value wraps around modulo 2^64)
RECURSIVE SizeSubAt(_, _, _)
SizeSubAt(a, i, b) ==
    IF i = 0 \/ b = 0 THEN a
    ELSE IF a[i] >= b THEN [a EXCEPT ![i] = a[i] - b]
    ELSE SizeSubAt([a EXCEPT ![i] = a[i] - b + SIZE_LIMB], i - 1, 1)

SizeSub(a, b) == SizeSubAt(a, 4, b)

\* malloc(size) gives no block for a size above PTRDIFF_MAX = 2^63 - 1,
\* whatever memory there is
MallocFails(size) == size[1] >= SIZE_LIMB \div 2

\* (mutant) a subtraction that stops at 0
RawUdevEnvLen_Saturating(raw_cmd_len) ==
    IF raw_cmd_len >= RAW_COMMAND_HEADER_LEN
    THEN SizeT(raw_cmd_len - RAW_COMMAND_HEADER_LEN)
    ELSE SizeT(0)

\* raw_cmd->len - sizeof(struct raw_command_header), both size_t
RawUdevEnvLen(raw_cmd_len) == SizeSub(SizeT(raw_cmd_len), RAW_COMMAND_HEADER_LEN)

\* _init_command: the command record made from a complete raw command;
\* raw is the frame as it stands in the buffer (command number sanitised,
\* len the bytes the buffer holds, size prefix included).
\* Kept beside the fields of struct command, for the properties: req, the
\* header as it came off the wire; r, what _cmd_handler returned; nexec, how
\* often an execute function was called and fn, which one; phases, the
\* identify phases executed, each with what it returned; result, the
\* response frame written
_init_command(raw, req) ==
    [protocol |-> raw.header.protocol,
     type |-> raw.header.cmd_number,
     status |-> raw.header.status % 65536,
     es |-> "pending",
     dev |-> ZeroedDevice,
     raw_udev_env |-> raw.payload,
     raw_udev_env_len |-> RawUdevEnvLen(raw.len - MSG_SIZE_PREFIX_LEN),
     id |-> CommandName(raw.header.cmd_number),
     r |-> 0, nexec |-> 0, fn |-> "", phases |-> <<>>,
     result |-> NoFrame,
     req |-> req]


(***************************************************************************)
(* State.                                                                  *)
(***************************************************************************)
VARIABLES
    observers,    \* the observer children of the ubridge, in insertion order
    worker,       \* the worker processes, by pid
    to_worker,    \* control channel, observer -> worker: connection FDs in flight
    to_observer,  \* control channel, worker -> observer: control bytes in flight
    conn,         \* the client connections, by number
    backlog,      \* connections waiting in the listening socket, oldest first
    parent,       \* file descriptors of the parent process besides its observers'
    kv,           \* a key-value store and the result of the last call made on it
    tree          \* a resource tree, its child iterator and the result of the last call

vars == <<observers, worker, to_worker, to_observer, conn, backlog, parent, kv, tree>>

Pids == 1..MaxWorkers
ConnIds == 1..MaxConns

\* struct observer right after _init_observer
NewObserver(pid) ==
    [worker_pid |-> pid, worker_state |-> WORKER_IDLE, idle_timeout_es |-> "null"]

(***************************************************************************)
(* Resource tree (resource.h). Resources are numbered in the order of      *)
(* their creation; 0 stands for NULL. The first resource is the root; its  *)
(* type has with_event_loop set, so it owns the event loop that all        *)
(* event sources of the tree are registered on.                            *)
(***************************************************************************)
Root == 1
NodeIds == 1..MaxNodes

\* no child iterator
NoIter == [res |-> 0, snap |-> <<>>, pos |-> 0, yielded |-> <<>>, ended |-> FALSE]

\* no call of the resource interface
NoTreeCall == [op |-> "none", res |-> 0, ret |-> 0]

\* the tree after sid_resource_create(NULL, ...) of a root with an event loop
RootOnly ==
    [nodes |-> {Root},
     up |-> [n \in NodeIds |-> 0],
     kids |-> [n \in NodeIds |-> <<>>],
     es |-> {},
     made |-> 1,
     dispatch |-> FALSE,
     iter |-> NoIter,
     last |-> NoTreeCall]

\* a resource with everything below it, following the child lists
RECURSIVE Subtree(_, _)
Subtree(t, n) ==
    {n} \cup UNION {Subtree(t, t.kids[n][i]) : i \in 1..Len(t.kids[n])}

\* the resources that can be reached from the root
Reachable(t) == IF Root \in t.nodes THEN Subtree(t, Root) ELSE {}

\* a sequence without the element x
RECURSIVE Without(_, _)
Without(seq, x) ==
    IF seq = <<>> THEN <<>>
    ELSE IF Head(seq) = x THEN Without(Tail(seq), x)
    ELSE <<Head(seq)>> \o Without(Tail(seq), x)

\* the resource is driving an active dispatch of its event loop: a handler
\* of the loop it owns is running
DrivingDispatch(t, n) == n = Root /\ t.dispatch

\* sid_resource_create(parent, ...): the new resource is appended to the
\* child list of its parent
TreeAfterCreate(t, par) ==
    LET n == t.made + 1
    IN  [t EXCEPT !.nodes = @ \cup {n}, !.up[n] = par,
                  !.kids[par] = Append(@, n), !.made = n]

\* (mutant) a destroy that frees the resource and leaves it in the child
\* list of its parent
TreeAfterDestroy_KeptInList(t, n) ==
    [t EXCEPT !.nodes = @ \ {n}, !.es = @ \ {n}]

\* sid_resource_destroy(res) of a resource that it may destroy: the subtree
\* goes, children first, with the event sources of its resources
TreeAfterDestroy(t, n) ==
    LET gone == Subtree(t, n)
    IN  [t EXCEPT !.nodes = @ \ gone,
                  !.es = @ \ gone,
                  !.up = [m \in NodeIds |-> IF m \in gone THEN 0 ELSE t.up[m]],
                  !.kids = [m \in NodeIds |->
                              IF m \in gone THEN <<>>
                              ELSE IF m = t.up[n] THEN Without(t.kids[m], n)
                              ELSE t.kids[m]]]

\* (mutant) a destroy that does not look at the event loop
sid_resource_destroy_Always(t, n) ==
    [ret |-> 0, tree |-> TreeAfterDestroy(t, n)]

\* sid_resource_destroy(res): fails on the resource that is driving an
\* active dispatch of its event loop
sid_resource_destroy(t, n) ==
    IF DrivingDispatch(t, n)
    THEN [ret |-> -1, tree |-> t]
    ELSE [ret |-> 0, tree |-> TreeAfterDestroy(t, n)]

\* sid_resource_iter_create(res): the iterator keeps the child list as it
\* is now
sid_resource_iter_create(t, n) ==
    [NoIter EXCEPT !.res = n, !.snap = t.kids[n]]

\* (mutant) an iterator that does not skip removed entries
IterNextPos_NoSkip(t, it) == it.pos + 1

\* the position sid_resource_iter_next moves to: the next entry of the
\* snapshot that was not removed, or past the end
IterNextPos(t, it) ==
    IF \E p \in (it.pos + 1)..Len(it.snap) : it.snap[p] \in t.nodes
    THEN CHOOSE p \in (it.pos + 1)..Len(it.snap) :
            /\ it.snap[p] \in t.nodes
            /\ \A q \in (it.pos + 1)..(p - 1) : it.snap[q] \notin t.nodes
    ELSE Len(it.snap) + 1

\* what an iterator at a position points to, NULL past the end
IterAt(it, p) == IF p \in 1..Len(it.snap) THEN it.snap[p] ELSE 0

\* the iterator after sid_resource_iter_next
sid_resource_iter_next(t, it) ==
    LET p == IterNextPos(t, it)
    IN  [it EXCEPT !.pos = p,
                   !.yielded = IF IterAt(it, p) # 0 THEN Append(@, IterAt(it, p)) ELSE @,
                   !.ended = IterAt(it, p) = 0]

\* the loop of _worker_cleanup from an iterator on: every child that
\* sid_resource_iter_next yields is destroyed, until it returns NULL
RECURSIVE TreeAfterCleanupLoop(_, _)
TreeAfterCleanupLoop(t, it) ==
    LET it1 == sid_resource_iter_next(t, it)
    IN  IF it1.ended
        THEN t
        ELSE TreeAfterCleanupLoop(sid_resource_destroy(t, IterAt(it1, it1.pos)).tree, it1)

\* the signal mask of a process: the one it was started with, or the full
\* set that _spawn_worker blocks
SIGMASK_ORIGINAL == "original"
SIGMASK_ALL == "all signals blocked"

\* (mutant) the mask is restored only after a fork that succeeded
MaskAtReturn_ForkedOnly(mask, original_sigmask, signals_blocked, pid) ==
    IF signals_blocked /\ pid > 0 THEN original_sigmask ELSE mask

\* the signal mask of a process when it returns from _spawn_worker: the
\* label out restores the original mask if signals_blocked && pid, where
\* pid is -1 after a failed fork, 0 in the child, the child's pid in the
\* parent
MaskAtReturn(mask, original_sigmask, signals_blocked, pid) ==
    IF signals_blocked /\ pid # 0 THEN original_sigmask ELSE mask

\* no FD of the parent's resources
NoInherited == [listener |-> FALSE, comms |-> {}]

\* the resource tree of the parent while _on_ubridge_interface_event runs:
\* the root, which owns the event loop that dispatched the handler, the
\* ubridge under it and the observers obs under the ubridge, each with its
\* event sources
PoolTree(obs) ==
    [RootOnly EXCEPT
        !.nodes = 1..(2 + Len(obs)),
        !.up = [n \in NodeIds |-> IF n = 2 THEN Root ELSE IF n \in 3..(2 + Len(obs)) THEN 2 ELSE 0],
        !.kids = [n \in NodeIds |->
                    IF n = Root THEN <<2>>
                    ELSE IF n = 2 THEN [i \in 1..Len(obs) |-> 2 + i]
                    ELSE <<>>],
        !.es = 2..(2 + Len(obs)),
        !.made = 2 + Len(obs),
        !.dispatch = TRUE]

\* the FDs of the parent's resources that the child still holds when
\* _spawn_worker returns in it: comms_fd[0] is closed; the listener and the
\* control channel FDs of the observers obs are closed by _destroy_ubridge
\* and _destroy_observer if sid_resource_destroy of the top level destroys
\* them
InheritedAfterSpawn(obs) ==
    LET left == sid_resource_destroy(PoolTree(obs), Root).tree
    IN  [listener |-> 2 \in left.nodes,
         comms |-> {obs[i].worker_pid : i \in {j \in 1..Len(obs) : 2 + j \in left.nodes}}]

\* a process that was never forked
NoWorker ==
    [state |-> "none", conn_fd |-> 0, conn_es |-> 0, buf |-> EmptyBuffer,
     children |-> <<>>, sigterm |-> FALSE, sigmask |-> SIGMASK_ORIGINAL,
     inherited |-> NoInherited, errno |-> "none", open_fds |-> {}]

\* struct worker right after _init_worker, in a process that runs its loop
\* (conn_fd 0 stands for -1, conn_es 0 for NULL; open_fds: the connection
\* FDs the process has open)
NewWorker == [NoWorker EXCEPT !.state = "running"]

\* the parent right after _init_ubridge: no accepted connection FD, no FD
\* of a socketpair without an owner; ret: what the last run of
\* _on_ubridge_interface_event returned
NoParentFds == [conn_fds |-> {}, stray_fds |-> 0, sigmask |-> SIGMASK_ORIGINAL, ret |-> 0]

(***************************************************************************)
(* Key-value store (kv-store.h). A value is a sequence of segments: one    *)
(* segment for a plain value, the members of the iovec for a vector value. *)
(* A pointer is its owner and a number that tells the owner's buffers      *)
(* apart.                                                                  *)
(***************************************************************************)
KV_STORE_KEY_JOIN == ":"
KV_STORE_VALUE_VECTOR == 1
KV_STORE_VALUE_REF == 2
KV_STORE_VALUE_MERGE == 4

\* flags & f
HasFlag(flags, f) == (flags \div f) % 2 = 1

\* "Final key is composed of key_prefix and key"
CompositeKey(key_prefix, key) == key_prefix \o <<KV_STORE_KEY_JOIN>> \o key

NullPtr == [owner |-> "NULL", id |-> 0]
CallerPtr(n) == [owner |-> "caller", id |-> n]
\* memory the store allocated for the entry of a composite key
StorePtr == [owner |-> "kv_store", id |-> 0]

\* the bytes of all segments, one after the other
RECURSIVE Merged(_)
Merged(iov) == IF iov = <<>> THEN <<>> ELSE Head(iov) \o Merged(Tail(iov))

\* a resolver is the value its call returns; none is a NULL resolver
NoResolver == [present |-> FALSE, ret |-> 1]
Resolver(ret) == [present |-> TRUE, ret |-> ret]

\* OUTPUT VALUE of the table: rows A-E, G and H keep the members as they
\* are, row F merges them into a single value
KvStoredValue(iov, flags) ==
    IF /\ HasFlag(flags, KV_STORE_VALUE_VECTOR)
       /\ HasFlag(flags, KV_STORE_VALUE_MERGE)
       /\ ~HasFlag(flags, KV_STORE_VALUE_REF)
    THEN <<Merged(iov)>>
    ELSE iov

\* a store that reports the size in bytes for every row
KvStoredSize_Bytes(iov, flags) == Len(Merged(iov))

\* OUTPUT SIZE of the table: the value size for rows A-D and F, the iovec
\* size for rows E, G and H
KvStoredSize(iov, flags) ==
    IF ~HasFlag(flags, KV_STORE_VALUE_VECTOR)
    THEN Len(iov[1])
    ELSE IF /\ HasFlag(flags, KV_STORE_VALUE_MERGE)
            /\ ~HasFlag(flags, KV_STORE_VALUE_REF)
         THEN Len(Merged(iov))
         ELSE Len(iov)

\* OUTPUT VALUE of the table, the reference: rows C, D and G return the
\* caller's reference, the other rows a reference to memory of the store
KvStoredPtr(ptr, flags) ==
    IF /\ HasFlag(flags, KV_STORE_VALUE_REF)
       /\ ~(HasFlag(flags, KV_STORE_VALUE_VECTOR) /\ HasFlag(flags, KV_STORE_VALUE_MERGE))
    THEN ptr
    ELSE StorePtr

\* the entry kv_store_set_value makes of its arguments
KvEntry(ckey, value, flags) ==
    [ckey |-> ckey,
     value |-> KvStoredValue(value.iov, flags),
     size |-> KvStoredSize(value.iov, flags),
     flags |-> flags,
     ptr |-> KvStoredPtr(value.ptr, flags)]

\* the entries of a store under a composite key
KvLookup(store, ckey) == {e \in store : e.ckey = ckey}

\* a store that never calls the resolver
KvStoreAfterSet_NoResolver(store, entry, resolver) ==
    (store \ KvLookup(store, entry.ckey)) \cup {entry}

\* kv_store_set_value on the store: a new key is added; for a key that
\* exists the resolver decides, and without a resolver the value is replaced
KvStoreAfterSet(store, entry, resolver) ==
    IF KvLookup(store, entry.ckey) # {} /\ resolver.present /\ resolver.ret = 0
    THEN store
    ELSE (store \ KvLookup(store, entry.ckey)) \cup {entry}

\* kv_store_unset_value on the store: is the value unset
KvUnsets(store, ckey, resolver) ==
    /\ KvLookup(store, ckey) # {}
    /\ ~resolver.present \/ resolver.ret = 1

\* kv_store_unset_value on the store
KvStoreAfterUnset(store, ckey, resolver) ==
    IF KvUnsets(store, ckey, resolver) THEN store \ KvLookup(store, ckey) ELSE store

\* no call
NoCall ==
    [op |-> "none", ckey |-> <<>>, value |-> [iov |-> <<>>, ptr |-> NullPtr],
     flags |-> 0, resolver |-> NoResolver, existed |-> FALSE,
     ret |-> 0, ret_value |-> <<>>, ret_size |-> 0, ret_ptr |-> NullPtr]

\* a store with no entry, on which no call was made
EmptyKv == [store |-> {}, last |-> NoCall]

NoConn ==
    [state |-> "none", client |-> "open", rx |-> <<>>, unsent |-> <<>>,
     nsent |-> 0, tx |-> <<>>, reqs |-> <<>>]

Init ==
    /\ observers = <<>>
    /\ worker = [p \in Pids |-> NoWorker]
    /\ to_worker = [p \in Pids |-> <<>>]
    /\ to_observer = [p \in Pids |-> <<>>]
    /\ conn = [c \in ConnIds |-> NoConn]
    /\ backlog = <<>>
    /\ parent = NoParentFds
    /\ kv = EmptyKv
    /\ tree = RootOnly

\* processes forked so far; pids are handed out in order
NumForked == Cardinality({p \in Pids : worker[p].state # "none"})

\* index of the observer of a worker among the children, 0 when destroyed
ObserverOf(pid) ==
    IF \E i \in 1..Len(observers) : observers[i].worker_pid = pid
    THEN CHOOSE i \in 1..Len(observers) : observers[i].worker_pid = pid
    ELSE 0

RemoveAt(seq, i) == SubSeq(seq, 1, i - 1) \o SubSeq(seq, i + 1, Len(seq))

(***************************************************************************)
(* Clients.                                                                *)
(***************************************************************************)
\* connect(2) to the listening socket
ClientConnect(c) ==
    /\ conn[c].state = "none"
    /\ \A d \in 1..(c - 1) : conn[d].state # "none"
    /\ conn' = [conn EXCEPT ![c].state = "queued"]
    /\ backlog' = Append(backlog, c)
    /\ UNCHANGED <<observers, worker, to_worker, to_observer>>
    /\ UNCHANGED <<parent, kv, tree>>

\* a client that connects and writes its one request f at once
ClientRequest(c, f) ==
    /\ conn[c].state = "none"
    /\ \A d \in 1..(c - 1) : conn[d].state # "none"
    /\ conn' = [conn EXCEPT ![c].state = "queued", ![c].nsent = 1,
                            ![c].rx = <<[frame |-> f, n |-> f.len]>>]
    /\ backlog' = Append(backlog, c)
    /\ UNCHANGED <<observers, worker, to_worker, to_observer>>
    /\ UNCHANGED <<parent, kv, tree>>

\* a client that connects and writes the requests fs one right after the other
ClientPipeline(c, fs) ==
    /\ conn[c].state = "none"
    /\ \A d \in 1..(c - 1) : conn[d].state # "none"
    /\ conn' = [conn EXCEPT ![c].state = "queued", ![c].nsent = Len(fs),
                            ![c].rx = [k \in 1..Len(fs) |-> [frame |-> fs[k], n |-> fs[k].len]]]
    /\ backlog' = Append(backlog, c)
    /\ UNCHANGED <<observers, worker, to_worker, to_observer>>
    /\ UNCHANGED <<parent, kv, tree>>

\* the bytes of frame f on the wire: at least its size prefix
WireLen(f) == IF f.len < MSG_SIZE_PREFIX_LEN THEN MSG_SIZE_PREFIX_LEN ELSE f.len

\* the client writes frame f: all of it (k = 0) or only its first k bytes
ClientSend(c, f, k) ==
    /\ conn[c].state \in {"queued", "passed"}
    /\ conn[c].client = "open"
    /\ conn[c].unsent = <<>>
    /\ conn[c].nsent < MaxFrames
    /\ k < WireLen(f)
    /\ conn' = [conn EXCEPT
                   ![c].nsent = @ + 1,
                   ![c].rx = Append(@, [frame |-> f, n |-> IF k = 0 THEN WireLen(f) ELSE k]),
                   ![c].unsent = IF k = 0 THEN <<>> ELSE <<[frame |-> f, n |-> WireLen(f) - k]>>]
    /\ UNCHANGED <<observers, worker, to_worker, to_observer, backlog>>
    /\ UNCHANGED <<parent, kv, tree>>

\* the client writes the rest of a frame it wrote in part
ClientSendRest(c) ==
    /\ conn[c].client = "open"
    /\ conn[c].unsent # <<>>
    /\ conn' = [conn EXCEPT ![c].rx = @ \o conn[c].unsent, ![c].unsent = <<>>]
    /\ UNCHANGED <<observers, worker, to_worker, to_observer, backlog>>
    /\ UNCHANGED <<parent, kv, tree>>

\* the client closes its end: the worker reads end of file after the data
ClientClose(c) ==
    /\ conn[c].state \in {"queued", "passed"}
    /\ conn[c].client = "open"
    /\ conn' = [conn EXCEPT ![c].client = "closed", ![c].unsent = <<>>]
    /\ UNCHANGED <<observers, worker, to_worker, to_observer, backlog>>
    /\ UNCHANGED <<parent, kv, tree>>

\* the connection breaks: the worker's next event carries EPOLLERR
ClientReset(c) ==
    /\ conn[c].state \in {"queued", "passed"}
    /\ conn[c].client = "open"
    /\ conn' = [conn EXCEPT ![c].client = "reset", ![c].unsent = <<>>]
    /\ UNCHANGED <<observers, worker, to_worker, to_observer, backlog>>
    /\ UNCHANGED <<parent, kv, tree>>


(***************************************************************************)
(* Parent process: ubridge and observers.                                  *)
(***************************************************************************)
\* (mutant) the worker_state of the child is not looked at
_find_observer_for_idle_worker_Any(obs) == IF obs # <<>> THEN 1 ELSE 0

\* (mutant) the iteration stops at the last idle child instead of the first
_find_observer_for_idle_worker_Last(obs) ==
    IF \E i \in 1..Len(obs) : obs[i].worker_state = WORKER_IDLE
    THEN CHOOSE i \in 1..Len(obs) :
            /\ obs[i].worker_state = WORKER_IDLE
            /\ \A j \in (i + 1)..Len(obs) : obs[j].worker_state # WORKER_IDLE
    ELSE 0

\* _find_observer_for_idle_worker: index of the first child whose worker is
\* idle, 0 (NULL) when there is none
_find_observer_for_idle_worker(obs) ==
    IF \E i \in 1..Len(obs) : obs[i].worker_state = WORKER_IDLE
    THEN CHOOSE i \in 1..Len(obs) :
            /\ obs[i].worker_state = WORKER_IDLE
            /\ \A j \in 1..(i - 1) : obs[j].worker_state # WORKER_IDLE
    ELSE 0

\* (mutant) the FD is sent and the state set, the idle timer is left armed
ObserverAfterPass_TimerKept(o) ==
    [o EXCEPT !.worker_state = WORKER_INIT]

\* the observer after _accept_connection_and_pass_to_worker has sent the FD
ObserverAfterPass(o) ==
    [o EXCEPT !.idle_timeout_es = "null", !.worker_state = WORKER_INIT]

\* (mutant) the idle timer is destroyed and the state set before the FD is
\* sent
_accept_connection_and_pass_to_worker_StateFirst(o, accept_ok, send_ok) ==
    IF accept_ok
    THEN [ret |-> IF send_ok THEN 0 ELSE -1, observer |-> ObserverAfterPass(o)]
    ELSE [ret |-> -1, observer |-> o]

\* _accept_connection_and_pass_to_worker on observer o: what it returns and
\* the observer it leaves. accept_ok, send_ok: do accept4(2) and the sending
\* of the FD succeed
_accept_connection_and_pass_to_worker(o, accept_ok, send_ok) ==
    IF accept_ok /\ send_ok
    THEN [ret |-> 0, observer |-> ObserverAfterPass(o)]
    ELSE [ret |-> -1, observer |-> o]

\* (mutant) the timer is armed on every control byte
ObserverOnComms_AlwaysArms(o, byte) ==
    IF byte = INTERNAL_COMMS_CMD_RUNNING
    THEN [o EXCEPT !.idle_timeout_es = "armed", !.worker_state = WORKER_RUNNING]
    ELSE [o EXCEPT !.idle_timeout_es = "armed", !.worker_state = WORKER_IDLE]

\* the observer after _on_observer_comms_event has received one control byte
ObserverOnComms(o, byte) ==
    IF byte = INTERNAL_COMMS_CMD_RUNNING
    THEN [o EXCEPT !.worker_state = WORKER_RUNNING]
    ELSE IF byte = INTERNAL_COMMS_CMD_IDLE
    THEN [o EXCEPT !.idle_timeout_es = "armed", !.worker_state = WORKER_IDLE]
    ELSE o

\* the observer after _on_idle_task_timeout_event
ObserverOnIdleTimeout(o) ==
    [o EXCEPT !.idle_timeout_es = "fired", !.worker_state = WORKER_FINI]

\* the accepted connection FDs the parent holds when
\* _accept_connection_and_pass_to_worker returns: conn_fd is closed after
\* the FD was sent and when sending failed
ParentConnFdsAfterPass(fds, conn_fd, sent) == fds \ {conn_fd}

\* the FDs of the socketpair that are left open without an owner when
\* _spawn_worker returns: both when fork failed, none otherwise
StrayFdsAfterSpawn(fork_failed) == IF fork_failed THEN 2 ELSE 0

\* _on_ubridge_interface_event in the parent, with _spawn_worker and
\* _accept_connection_and_pass_to_worker. fork_ok, accept_ok, send_ok: do
\* fork(2), accept4(2) and the sending of the FD succeed. No more than
\* MaxWorkers processes are forked and no more than MaxForkFailures forks fail.
UbridgeInterfaceEvent(fork_ok, accept_ok, send_ok) ==
    /\ backlog # <<>>
    /\ LET found == _find_observer_for_idle_worker(observers)
           forked == found = 0 /\ fork_ok /\ NumForked < MaxWorkers
           fork_failed == found = 0 /\ ~fork_ok
           pid == NumForked + 1
           obs1 == IF forked THEN Append(observers, NewObserver(pid)) ELSE observers
           res == IF found # 0 THEN found ELSE IF forked THEN Len(obs1) ELSE 0
           c == Head(backlog)
           accepted == res # 0 /\ accept_ok
           sent == accepted /\ send_ok
       IN  /\ found # 0 \/ forked \/ fork_failed
           /\ fork_failed => parent.stray_fds < 2 * MaxForkFailures
           /\ observers' = IF res # 0
                           THEN [obs1 EXCEPT ![res] =
                                   _accept_connection_and_pass_to_worker(@, accept_ok, send_ok).observer]
                           ELSE obs1
           /\ worker' = IF forked
                        THEN [worker EXCEPT ![pid] =
                                [NewWorker EXCEPT
                                    !.sigmask = MaskAtReturn(SIGMASK_ALL, parent.sigmask, TRUE, 0),
                                    !.inherited = InheritedAfterSpawn(observers)]]
                        ELSE worker
           /\ backlog' = IF accepted THEN Tail(backlog) ELSE backlog
           /\ conn' = IF accepted
                      THEN [conn EXCEPT ![c].state = IF sent THEN "passed" ELSE "dropped"]
                      ELSE conn
           /\ to_worker' = IF sent
                           THEN [to_worker EXCEPT ![obs1[res].worker_pid] = Append(@, c)]
                           ELSE to_worker
           /\ parent' = [conn_fds |-> IF accepted
                                       THEN ParentConnFdsAfterPass(parent.conn_fds \cup {c}, c, sent)
                                       ELSE parent.conn_fds,
                         stray_fds |-> parent.stray_fds + StrayFdsAfterSpawn(fork_failed),
                         sigmask |-> IF found = 0
                                     THEN MaskAtReturn(SIGMASK_ALL, parent.sigmask, TRUE,
                                                       IF forked THEN pid ELSE -1)
                                     ELSE parent.sigmask,
                         ret |-> IF res # 0
                                 THEN _accept_connection_and_pass_to_worker(obs1[res], accept_ok, send_ok).ret
                                 ELSE -1]
    /\ UNCHANGED <<to_observer, kv, tree>>

\* _on_observer_comms_event of the i-th observer child
ObserverCommsEvent(i) ==
    /\ i \in 1..Len(observers)
    /\ LET pid == observers[i].worker_pid
       IN  /\ to_observer[pid] # <<>>
           /\ observers' = [observers EXCEPT ![i] = ObserverOnComms(@, Head(to_observer[pid]))]
           /\ to_observer' = [to_observer EXCEPT ![pid] = Tail(@)]
    /\ UNCHANGED <<worker, to_worker, conn, backlog>>
    /\ UNCHANGED <<parent, kv, tree>>

\* (mutant) the state is set to WORKER_FINI but no signal is sent
IdleTaskTimeoutEvent_NoKill(i) ==
    /\ i \in 1..Len(observers)
    /\ observers[i].idle_timeout_es = "armed"
    /\ observers' = [observers EXCEPT ![i] = ObserverOnIdleTimeout(@)]
    /\ UNCHANGED <<worker, to_worker, to_observer, conn, backlog>>
    /\ UNCHANGED <<parent, kv, tree>>

\* _on_idle_task_timeout_event of the i-th observer child: its armed timer
\* has run out; SIGTERM goes to the worker
IdleTaskTimeoutEvent(i) ==
    /\ i \in 1..Len(observers)
    /\ observers[i].idle_timeout_es = "armed"
    /\ observers' = [observers EXCEPT ![i] = ObserverOnIdleTimeout(@)]
    /\ worker' = [worker EXCEPT ![observers[i].worker_pid].sigterm =
                      (worker[observers[i].worker_pid].state = "running")]
    /\ UNCHANGED <<to_worker, to_observer, conn, backlog>>
    /\ UNCHANGED <<parent, kv, tree>>

\* (mutant) the observer is destroyed whether its worker has exited or not
ObserverChildEvent_AnyTime(i) ==
    /\ i \in 1..Len(observers)
    /\ observers' = RemoveAt(observers, i)
    /\ UNCHANGED <<worker, to_worker, to_observer, conn, backlog>>
    /\ UNCHANGED <<parent, kv, tree>>

\* _on_observer_child_event of the i-th observer child: the worker process
\* has exited, the observer is destroyed
ObserverChildEvent(i) ==
    /\ i \in 1..Len(observers)
    /\ worker[observers[i].worker_pid].state = "exited"
    /\ observers' = RemoveAt(observers, i)
    /\ UNCHANGED <<worker, to_worker, to_observer, conn, backlog>>
    /\ UNCHANGED <<parent, kv, tree>>

(***************************************************************************)
(* Worker process.                                                         *)
(***************************************************************************)
\* (mutant) deferred event sources are never due
DeferredPending_Never(w) == FALSE

\* a deferred event source of a command has not run yet; the loop runs it
\* before it waits for I/O again
DeferredPending(w) == \E k \in 1..Len(w.children) : w.children[k].es = "pending"

\* (mutant) a cleanup that leaves the command children
_worker_cleanup_KeepsCommands(w) ==
    [w EXCEPT !.conn_es = 0, !.buf = buffer_reset(w.buf)]

\* struct worker after _worker_cleanup (the IDLE byte is sent by the action)
_worker_cleanup(w) ==
    [w EXCEPT !.children = <<>>, !.conn_es = 0, !.buf = buffer_reset(w.buf)]

\* the connection FDs open in the worker after comms_unix_recv has handed
\* it fd_received and _on_worker_comms_event has stored it in conn_fd: the
\* FD stored before is not closed
WorkerFdsAfterReceive(w, fd_received) == w.open_fds \cup {fd_received}

\* _on_worker_comms_event: a connection FD arrives; reg_ok: does the
\* registering of the connection's I/O event source succeed
WorkerCommsEvent(pid, reg_ok) ==
    /\ worker[pid].state = "running"
    /\ ~DeferredPending(worker[pid])
    /\ to_worker[pid] # <<>>
    /\ LET fd_received == Head(to_worker[pid])
       IN  /\ worker' = [worker EXCEPT ![pid].conn_fd = fd_received,
                                       ![pid].conn_es = IF reg_ok THEN fd_received ELSE @,
                                       ![pid].open_fds = WorkerFdsAfterReceive(worker[pid], fd_received)]
           /\ to_observer' = IF reg_ok
                             THEN [to_observer EXCEPT ![pid] = Append(@, INTERNAL_COMMS_CMD_RUNNING)]
                             ELSE to_observer
    /\ to_worker' = [to_worker EXCEPT ![pid] = Tail(@)]
    /\ UNCHANGED <<observers, conn, backlog>>
    /\ UNCHANGED <<parent, kv, tree>>

\* buffer_read: the n bytes of the chunk, which are bytes of chunk.frame, are
\* added to the buffer (a read never goes past the end of a frame)
BufferAfterRead(buf, chunk) == [used |-> buf.used + chunk.n, data |-> chunk.frame]

\* a worker that makes a command of whatever it has read
WorkerAfterRead_Eager(w, chunk, create_ok) ==
    [w EXCEPT !.buf = BufferAfterRead(w.buf, chunk),
              !.children = Append(@, _init_command(chunk.frame, chunk.frame.header))]

\* the worker after buffer_read has put the chunk into the buffer and, if the
\* frame is complete, _on_worker_conn_event has made a command of it:
\* sid_resource_create fails when _init_command gets no memory for the
\* payload, and create_ok tells whether everything else in it succeeds
WorkerAfterRead(w, chunk, create_ok) ==
    LET buf1 == BufferAfterRead(w.buf, chunk)
        raw == [chunk.frame EXCEPT !.header.cmd_number = SanitizeCmdNumber(@),
                                   !.len = buf1.used]
        cmd == _init_command(raw, chunk.frame.header)
    IN  IF buffer_is_complete(buf1)
        THEN [w EXCEPT !.buf = buffer_reset(buf1),
                       !.children = IF create_ok /\ ~MallocFails(cmd.raw_udev_env_len)
                                    THEN Append(@, cmd)
                                    ELSE @]
        ELSE [w EXCEPT !.buf = buf1]

\* _on_worker_conn_event: an event on the connection. create_ok: does
\* sid_resource_create of the command succeed
WorkerConnEvent(pid, create_ok) ==
    /\ worker[pid].state = "running"
    /\ ~DeferredPending(worker[pid])
    /\ worker[pid].conn_es # 0
    /\ LET w == worker[pid]
           c == w.conn_es
       IN  IF conn[c].client = "reset" \/ conn[c].rx = <<>>
           THEN \* EPOLLERR, or end of file: clean up and report IDLE
                /\ conn[c].client \in {"reset", "closed"}
                /\ worker' = [worker EXCEPT ![pid] = _worker_cleanup(w)]
                /\ to_observer' = [to_observer EXCEPT ![pid] = Append(@, INTERNAL_COMMS_CMD_IDLE)]
                /\ UNCHANGED conn
           ELSE \* n > 0
                LET chunk == Head(conn[c].rx)
                    w1 == WorkerAfterRead(w, chunk, create_ok)
                IN  /\ worker' = [worker EXCEPT ![pid] = w1]
                    /\ conn' = [conn EXCEPT ![c].rx = Tail(@),
                                            ![c].reqs = IF buffer_is_complete(BufferAfterRead(w.buf, chunk))
                                                        THEN Append(@, chunk.frame) ELSE @]
                    /\ UNCHANGED to_observer
    /\ UNCHANGED <<observers, to_worker, backlog>>
    /\ UNCHANGED <<parent, kv, tree>>

\* errno values of a failed read
EAGAIN == "EAGAIN"
EINTR == "EINTR"
EIO == "EIO"
ECONNRESET == "ECONNRESET"

\* (mutant) no read error is taken for a reason to try again
RetriesRead_Never(err) == FALSE

\* errno == EAGAIN || errno == EINTR
RetriesRead(err) == err = EAGAIN \/ err = EINTR

\* _on_worker_conn_event when there is no EPOLLERR and buffer_read returns
\* -1 with errno err: return 0 at once for EAGAIN and EINTR, clean up and
\* report IDLE for any other error
WorkerConnReadError(pid, err) ==
    /\ worker[pid].state = "running"
    /\ ~DeferredPending(worker[pid])
    /\ worker[pid].conn_es # 0
    /\ conn[worker[pid].conn_es].client # "reset"
    /\ IF RetriesRead(err)
       THEN /\ worker' = [worker EXCEPT ![pid].errno = err]
            /\ UNCHANGED to_observer
       ELSE /\ worker' = [worker EXCEPT ![pid] = [_worker_cleanup(@) EXCEPT !.errno = err]]
            /\ to_observer' = [to_observer EXCEPT ![pid] = Append(@, INTERNAL_COMMS_CMD_IDLE)]
    /\ UNCHANGED <<observers, to_worker, conn, backlog>>
    /\ UNCHANGED <<parent, kv, tree>>

\* index of the first command child whose deferred handler is due
FirstPending(w) ==
    CHOOSE k \in 1..Len(w.children) :
        /\ w.children[k].es = "pending"
        /\ \A j \in 1..(k - 1) : w.children[j].es # "pending"

\* the command record after _cmd_handler has run on it with result h
CommandAfterHandler(cmd, h) ==
    [cmd EXCEPT !.es = "done", !.r = h.r,
                !.nexec = IF h.executed THEN @ + 1 ELSE @,
                !.fn = IF h.executed THEN h.x.fn ELSE @,
                !.dev = IF h.executed THEN h.x.dev ELSE @,
                !.phases = IF h.executed THEN h.x.phases ELSE @,
                !.result = h.response]

\* _cmd_handler, the deferred handler of the oldest waiting command: executes
\* it and writes the response to the worker's connection. rets: what the
\* identify phases return
CmdHandler(pid, rets) ==
    /\ worker[pid].state = "running"
    /\ DeferredPending(worker[pid])
    /\ LET w == worker[pid]
           k == FirstPending(w)
           h == _cmd_handler(w.children[k], rets)
       IN  /\ worker' = [worker EXCEPT ![pid].children[k] = CommandAfterHandler(@, h)]
           /\ conn' = [conn EXCEPT ![w.conn_fd].tx = Append(@, h.response)]
    /\ UNCHANGED <<observers, to_worker, to_observer, backlog>>
    /\ UNCHANGED <<parent, kv, tree>>

\* the worker process after it has left its loop, destroyed its resource
\* tree and exited
ExitedWorker(w) ==
    [w EXCEPT !.state = "exited", !.children = <<>>, !.conn_es = 0, !.conn_fd = 0,
              !.buf = EmptyBuffer, !.sigterm = FALSE, !.inherited = NoInherited,
              !.open_fds = {}]

\* _on_signal_event on SIGTERM, then the end of _on_ubridge_interface_event
\* in the worker: the loop is left, the worker destroyed, the process exits
WorkerSignalEvent(pid) ==
    /\ worker[pid].state = "running"
    /\ worker[pid].sigterm
    /\ worker' = [worker EXCEPT ![pid] = ExitedWorker(@)]
    /\ UNCHANGED <<observers, to_worker, to_observer, conn, backlog>>
    /\ UNCHANGED <<parent, kv, tree>>

\* the worker process dies on its own (killed or crashed)
WorkerKilled(pid) ==
    /\ worker[pid].state = "running"
    /\ worker' = [worker EXCEPT ![pid] = ExitedWorker(@)]
    /\ UNCHANGED <<observers, to_worker, to_observer, conn, backlog>>
    /\ UNCHANGED <<parent, kv, tree>>


(***************************************************************************)
(* Inputs: the entries, payloads and frames the clients send.              *)
(***************************************************************************)
\* "ACTION=add"
E_ACTION_ADD == <<"A","C","T","I","O","N","=","a","d","d">>
\* "ACTION=remove"
E_ACTION_REMOVE == <<"A","C","T","I","O","N","=","r","e","m","o","v","e">>
\* "DEVNAME=sda"
E_DEVNAME == <<"D","E","V","N","A","M","E","=","s","d","a">>
\* "DEVTYPE=disk"
E_DEVTYPE == <<"D","E","V","T","Y","P","E","=","d","i","s","k">>
\* "MAJOR=8"
E_MAJOR_8 == <<"M","A","J","O","R","=","8">>
\* "MINOR=0"
E_MINOR_0 == <<"M","I","N","O","R","=","0">>
\* "MINOR=3"
E_MINOR_3 == <<"M","I","N","O","R","=","3">>
\* "SEQNUM=42"
E_SEQNUM_42 == <<"S","E","Q","N","U","M","=","4","2">>
\* "SEQNUM=7"
E_SEQNUM_7 == <<"S","E","Q","N","U","M","=","7">>
\* "SYNTH_UUID=u1"
E_SYNTH_UUID == <<"S","Y","N","T","H","_","U","U","I","D","=","u","1">>
\* "FOO=1"
E_FOO == <<"F","O","O","=","1">>
\* "MAJORS=5"
E_LONGER_KEY == <<"M","A","J","O","R","S","=","5">>
\* "M=3"
E_PREFIX_M == <<"M","=","3">>
\* "DEV=x"
E_PREFIX_DEV == <<"D","E","V","=","x">>
\* "=bind"
E_EMPTY_KEY == <<"=","b","i","n","d">>
\* "BAD"
E_NO_EQ == <<"B","A","D">>

\* entries whose key is one of the seven recognised keys
GoodEntries ==
    {E_ACTION_ADD, E_ACTION_REMOVE, E_DEVNAME, E_DEVTYPE, E_MAJOR_8, E_MINOR_0,
     E_MINOR_3, E_SEQNUM_42, E_SEQNUM_7, E_SYNTH_UUID}
\* entries KEY=VALUE with another key
OtherEntries == {E_FOO, E_LONGER_KEY, E_PREFIX_M, E_PREFIX_DEV, E_EMPTY_KEY}
\* an entry with no '='
BadEntries == {E_NO_EQ}

\* the payload made of the entries, each followed by its NUL
RECURSIVE Nullstr(_)
Nullstr(es) == IF es = <<>> THEN <<>> ELSE Head(es) \o <<NUL>> \o Nullstr(Tail(es))

\* the same payload cut before its last NUL
Unterminated(es) == SubSeq(Nullstr(es), 1, Len(Nullstr(es)) - 1)

\* sequences over S of length at most n
RECURSIVE SeqsUpTo(_, _)
SeqsUpTo(S, n) ==
    IF n = 0 THEN {<<>>}
    ELSE LET shorter == SeqsUpTo(S, n - 1)
         IN  shorter \cup {Append(q, e) : q \in shorter, e \in S}

\* "ACTION=add\0MAJOR=8\0MINOR=0\0SEQNUM=42\0"
ScenarioEntries == <<E_ACTION_ADD, E_MAJOR_8, E_MINOR_0, E_SEQNUM_42>>

Protocols == 0..(UBRIDGE_PROTOCOL + 1)
\* command numbers around the enumeration, and two far from it
CmdNumbers == (CMD_START..(CMD_END + 1)) \cup {99, 255}

\* the version request of a current client
VersionRequest == Frame(UBRIDGE_PROTOCOL, CMD_VERSION, 0, <<>>)

\* frames of the pool runs
PoolFrames == {VersionRequest}

\* frames of the command runs: every protocol and command number, and
\* identify requests with a good, a malformed and an unterminated payload
CmdFrames ==
    {Frame(p, n, 0, <<>>) : p \in Protocols, n \in CmdNumbers}
    \cup {Frame(UBRIDGE_PROTOCOL, CMD_VERSION, 42, <<>>)}
    \cup {Frame(p, CMD_IDENTIFY, 42, pl) :
            p \in Protocols,
            pl \in {Nullstr(ScenarioEntries), Nullstr(<<E_MAJOR_8, E_NO_EQ>>),
                    Unterminated(ScenarioEntries)}}

\* where a client may cut a frame it writes in two parts (0: in one part)
SplitPoints == {0, 2, 8}

(***************************************************************************)
(* The pool: clients, ubridge, observers and workers.                      *)
(***************************************************************************)
Next ==
    \/ \E c \in ConnIds, f \in PoolFrames : ClientRequest(c, f)
    \/ \E c \in ConnIds : ClientClose(c)
    \/ \E accept_ok, send_ok \in BOOLEAN :
            UbridgeInterfaceEvent(TRUE, accept_ok, send_ok)
    \/ \E i \in Pids : ObserverCommsEvent(i)
    \/ \E i \in Pids : IdleTaskTimeoutEvent(i)
    \/ \E i \in Pids : ObserverChildEvent(i)
    \/ \E pid \in Pids, reg_ok \in BOOLEAN : WorkerCommsEvent(pid, reg_ok)
    \/ \E pid \in Pids, create_ok \in BOOLEAN : WorkerConnEvent(pid, create_ok)
    \/ \E pid \in Pids : CmdHandler(pid, StubPhaseRets)
    \/ \E pid \in Pids : WorkerSignalEvent(pid)
    \/ \E pid \in Pids : WorkerKilled(pid)

Spec == Init /\ [][Next]_vars

(***************************************************************************)
(* The command pipeline: one client on the first connection, served by the *)
(* first worker, sending any of the command frames in one or two parts.    *)
(***************************************************************************)
NextCmd ==
    \/ ClientConnect(1)
    \/ \E f \in CmdFrames, k \in SplitPoints : ClientSend(1, f, k)
    \/ ClientSendRest(1)
    \/ ClientClose(1)
    \/ ClientReset(1)
    \/ UbridgeInterfaceEvent(TRUE, TRUE, TRUE)
    \/ ObserverCommsEvent(1)
    \/ WorkerCommsEvent(1, TRUE)
    \/ \E create_ok \in BOOLEAN : WorkerConnEvent(1, create_ok)
    \/ CmdHandler(1, StubPhaseRets)

SpecCmd == Init /\ [][NextCmd]_vars


(***************************************************************************)
(* Decoding: one client sends one identify request of the current          *)
(* protocol, its payload made of up to MaxEntries entries.                 *)
(***************************************************************************)
AllEntries == GoodEntries \cup OtherEntries \cup BadEntries

DecodePayloads ==
    {Nullstr(es) : es \in SeqsUpTo(AllEntries, MaxEntries)}
    \cup {Unterminated(es) : es \in SeqsUpTo(AllEntries, MaxEntries) \ {<<>>}}
    \cup {Nullstr(ScenarioEntries)}

DecodeFrames == {Frame(UBRIDGE_PROTOCOL, CMD_IDENTIFY, 42, pl) : pl \in DecodePayloads}

NextDecode ==
    \/ \E f \in DecodeFrames : ClientRequest(1, f)
    \/ ClientClose(1)
    \/ UbridgeInterfaceEvent(TRUE, TRUE, TRUE)
    \/ ObserverCommsEvent(1)
    \/ WorkerCommsEvent(1, TRUE)
    \/ WorkerConnEvent(1, TRUE)
    \/ CmdHandler(1, StubPhaseRets)

SpecDecode == Init /\ [][NextDecode]_vars

(***************************************************************************)
(* The identify loop and the dispatch of _cmd_handler, with phase          *)
(* functions that may return anything: one client sends one request, and   *)
(* the phases return any of PhaseRetValues.                                *)
(***************************************************************************)
PhaseRetValues == {-1, 0, 1}

IdentifyFrames ==
    {Frame(p, n, 0, pl) :
        p \in Protocols, n \in {CMD_VERSION, CMD_IDENTIFY, 99},
        pl \in {Nullstr(ScenarioEntries), Nullstr(<<E_NO_EQ>>)}}

NextIdentify ==
    \/ \E f \in IdentifyFrames : ClientRequest(1, f)
    \/ ClientClose(1)
    \/ UbridgeInterfaceEvent(TRUE, TRUE, TRUE)
    \/ ObserverCommsEvent(1)
    \/ WorkerCommsEvent(1, TRUE)
    \/ WorkerConnEvent(1, TRUE)
    \/ \E rets \in [Phases -> PhaseRetValues] : CmdHandler(1, rets)

SpecIdentify == Init /\ [][NextIdentify]_vars


(***************************************************************************)
(* Properties.                                                             *)
(***************************************************************************)
\* worker_state of the observer of worker pid in a list of children;
\* "none" when the ubridge has no such observer
StateIn(obs, pid) ==
    IF \E i \in 1..Len(obs) : obs[i].worker_pid = pid
    THEN obs[CHOOSE i \in 1..Len(obs) : obs[i].worker_pid = pid].worker_state
    ELSE "none"

\* C1: every change of an observer's worker_state is a transition of the
\* table: spawn -> IDLE (and on to INIT when the spawning handler passes the
\* connection), IDLE -> INIT when a connection FD is sent to the worker,
\* INIT -> RUNNING on the RUNNING byte, RUNNING -> IDLE on the IDLE byte,
\* IDLE -> FINI when the armed idle timer fires, and any state -> destroyed
\* once the worker process has exited.
C1_TableTransitionsOnly ==
    [][\A pid \in Pids :
        LET old == StateIn(observers, pid)
            new == StateIn(observers', pid)
            fd_sent == Len(to_worker'[pid]) = Len(to_worker[pid]) + 1
            byte_taken == to_observer[pid] # <<>> /\ to_observer'[pid] = Tail(to_observer[pid])
        IN  old # new =>
              \/ old = "none" /\ new = WORKER_IDLE /\ ~fd_sent
              \/ old = "none" /\ new = WORKER_INIT /\ fd_sent
              \/ old = WORKER_IDLE /\ new = WORKER_INIT /\ fd_sent
              \/ /\ old = WORKER_INIT /\ new = WORKER_RUNNING /\ byte_taken
                 /\ Head(to_observer[pid]) = INTERNAL_COMMS_CMD_RUNNING
              \/ /\ old = WORKER_RUNNING /\ new = WORKER_IDLE /\ byte_taken
                 /\ Head(to_observer[pid]) = INTERNAL_COMMS_CMD_IDLE
              \/ /\ old = WORKER_IDLE /\ new = WORKER_FINI
                 /\ observers[ObserverOf(pid)].idle_timeout_es = "armed"
              \/ new = "none" /\ worker[pid].state = "exited"]_vars

\* C1 witness: one observer has gone all the way to FINI while another one,
\* spawned meanwhile, is RUNNING
C1_Witness ==
    /\ \E i \in 1..Len(observers) : observers[i].worker_state = WORKER_FINI
    /\ \E j \in 1..Len(observers) : observers[j].worker_state = WORKER_RUNNING


\* the command children of all workers
Commands == UNION {{worker[p].children[k] : k \in 1..Len(worker[p].children)} : p \in Pids}
\* ... whose handler has run
DoneCommands == {cmd \in Commands : cmd.es = "done"}
\* the worker process that holds connection c
Serving(c) == {p \in Pids : worker[p].state = "running" /\ worker[p].conn_fd = c}
NumPending(p) == Cardinality({k \in 1..Len(worker[p].children) : worker[p].children[k].es = "pending"})
\* bit 0 of a status word
OverallBit(status) == status % 2

\* the entries of a payload, cut at each NUL; a payload that does not end in
\* a NUL has its unterminated rest as last entry
RECURSIVE EntriesOf(_)
EntriesOf(env) ==
    IF env = <<>> THEN <<>>
    ELSE IF IndexOf(env, NUL) = 0 THEN <<env>>
    ELSE <<SubSeq(env, 1, IndexOf(env, NUL) - 1)>>
         \o EntriesOf(SubSeq(env, IndexOf(env, NUL) + 1, Len(env)))

\* a malformed payload: an entry without '=', or no NUL after the last entry
MalformedPayload(env) ==
    \/ env # <<>> /\ env[Len(env)] # NUL
    \/ \E i \in 1..Len(EntriesOf(env)) : IndexOf(EntriesOf(env)[i], "=") = 0

KeyOf(entry) == SubSeq(entry, 1, IndexOf(entry, "=") - 1)
ValueOf(entry) == SubSeq(entry, IndexOf(entry, "=") + 1, Len(entry))
RecognisedKeys ==
    {KEY_ACTION, KEY_DEVNAME, KEY_DEVTYPE, KEY_MAJOR, KEY_MINOR, KEY_SEQNUM, KEY_SYNTH_UUID}
\* the entries of es whose key is a recognised key, in order
RECURSIVE RecognisedOnly(_)
RecognisedOnly(es) ==
    IF es = <<>> THEN <<>>
    ELSE IF KeyOf(Head(es)) \in RecognisedKeys THEN <<Head(es)>> \o RecognisedOnly(Tail(es))
    ELSE RecognisedOnly(Tail(es))

\* the number written in decimal digits
Decimal(value) == ParseDigits(value, 10, 0)

\* the device record the entries encode: each field from the last entry of
\* its key, numbers read in base 10, the action through the action table
RECURSIVE EncodedDevice(_, _)
EncodedDevice(es, dev) ==
    IF es = <<>> THEN dev
    ELSE LET k == KeyOf(Head(es))
             v == ValueOf(Head(es))
         IN  EncodedDevice(Tail(es),
                CASE k = KEY_ACTION -> [dev EXCEPT !.action = util_get_udev_action_from_string(v)]
                  [] k = KEY_DEVNAME -> [dev EXCEPT !.name = v]
                  [] k = KEY_DEVTYPE -> [dev EXCEPT !.type = v]
                  [] k = KEY_MAJOR -> [dev EXCEPT !.major = Decimal(v)]
                  [] k = KEY_MINOR -> [dev EXCEPT !.minor = Decimal(v)]
                  [] k = KEY_SEQNUM -> [dev EXCEPT !.seqnum = Decimal(v)]
                  [] k = KEY_SYNTH_UUID -> [dev EXCEPT !.synth_uuid = v]
                  [] OTHER -> dev)

\* C2: every complete request frame read from a connection is answered: at
\* any time the frames read are as many as the responses written to that
\* connection plus the commands whose deferred handler is still to run (and
\* will write one), also when the creation of the command resource failed.
C2_EveryFrameAnswered ==
    \A c \in ConnIds : \A p \in Serving(c) :
        Len(conn[c].reqs) = Len(conn[c].tx) + NumPending(p)

\* C3: every response frame written carries cmd_number = reply (1).
C3_ResponseIsReply ==
    \A c \in ConnIds : \A k \in 1..Len(conn[c].tx) :
        conn[c].tx[k].header.cmd_number = CMD_REPLY

\* C4: an identify request with a malformed payload (an entry with no '=', or
\* a last entry with no NUL) gives a negative result, runs no phase, and its
\* response has the OVERALL bit set.
C4_MalformedIdentifyFails ==
    \A cmd \in DoneCommands :
        (cmd.fn = "identify" /\ MalformedPayload(cmd.raw_udev_env)) =>
            /\ cmd.r < 0
            /\ cmd.phases = <<>>
            /\ OverallBit(cmd.result.header.status) = 1

\* C5: the OVERALL bit of a response is set exactly when the protocol of the
\* request is above UBRIDGE_PROTOCOL (and then no execute function is called)
\* or the execute function called returned a negative value; a request of
\* protocol <= UBRIDGE_PROTOCOL has the entry of _command_regs at its command
\* number executed exactly once.
C5_OverallBitAndDispatch ==
    \A cmd \in Commands :
        /\ cmd.es = "pending" => cmd.nexec = 0
        /\ cmd.es = "done" =>
            /\ cmd.nexec = IF cmd.protocol <= UBRIDGE_PROTOCOL THEN 1 ELSE 0
            /\ cmd.nexec = 1 => cmd.fn = CommandName(cmd.type)
            /\ OverallBit(cmd.result.header.status) = 1
                 <=> (cmd.protocol > UBRIDGE_PROTOCOL \/ (cmd.nexec = 1 /\ cmd.r < 0))

\* C5 witness: a request of a supported protocol whose execute function
\* failed has been answered with the OVERALL bit set
C5_Witness ==
    \E cmd \in DoneCommands :
        /\ cmd.protocol <= UBRIDGE_PROTOCOL /\ cmd.nexec = 1 /\ cmd.r < 0
        /\ OverallBit(cmd.result.header.status) = 1

\* the type a command number stands for
TypeOfNumber(n) == IF n \in {CMD_REPLY, CMD_VERSION, CMD_IDENTIFY, CMD_CHECKPOINT} THEN n ELSE CMD_UNKNOWN
\* a command that did nothing: nothing decoded, no phase run, no payload
NoOp(cmd) == cmd.dev = ZeroedDevice /\ cmd.phases = <<>> /\ cmd.result.payload = <<>>

\* C6 (as claimed): the type of a command is its command number when that is
\* in {1,2,3,4} and unknown otherwise, always an index of the five-entry
\* table; an unknown command does nothing and its response has bit 0 clear.
C6_Original ==
    \A cmd \in Commands :
        /\ cmd.type = TypeOfNumber(cmd.req.cmd_number)
        /\ cmd.type \in DOMAIN _command_regs
        /\ (cmd.es = "done" /\ cmd.type = CMD_UNKNOWN) =>
              NoOp(cmd) /\ OverallBit(cmd.result.header.status) = 0

\* C6 (amended): the same, the unknown command being executed as a no-op with
\* bit 0 clear when the protocol of the request is <= UBRIDGE_PROTOCOL.
C6_UnknownNormalised ==
    \A cmd \in Commands :
        /\ cmd.type = TypeOfNumber(cmd.req.cmd_number)
        /\ cmd.type \in DOMAIN _command_regs
        /\ (cmd.es = "done" /\ cmd.type = CMD_UNKNOWN /\ cmd.protocol <= UBRIDGE_PROTOCOL) =>
              /\ cmd.nexec = 1 /\ cmd.fn = "unknown" /\ cmd.r = 0
              /\ NoOp(cmd) /\ OverallBit(cmd.result.header.status) = 0

\* C6 witness: command number 99 was run as unknown and answered with success
C6_Witness ==
    \E cmd \in DoneCommands :
        /\ cmd.req.cmd_number = 99 /\ cmd.type = CMD_UNKNOWN /\ cmd.id = "unknown"
        /\ cmd.nexec = 1 /\ OverallBit(cmd.result.header.status) = 0

\* C7: an identify payload of entries of the recognised keys decodes to the
\* device record those entries encode (SEQNUM=42 gives seqnum 42).
C7_DecodeRoundTrip ==
    \A cmd \in DoneCommands :
        LET es == EntriesOf(cmd.raw_udev_env)
        IN  (/\ cmd.fn = "identify" /\ ~MalformedPayload(cmd.raw_udev_env)
             /\ \A i \in 1..Len(es) : KeyOf(es[i]) \in RecognisedKeys)
            => cmd.dev = EncodedDevice(es, ZeroedDevice)

\* C8: entries whose key is not exactly a recognised key are ignored: the
\* payload decodes, and to the same device record as without those entries.
C8_OtherKeysIgnored ==
    \A cmd \in DoneCommands :
        (cmd.fn = "identify" /\ ~MalformedPayload(cmd.raw_udev_env)) =>
            /\ cmd.phases # <<>>
            /\ cmd.dev = _parse_cmd_nullstr_udev_env(
                            Nullstr(RecognisedOnly(EntriesOf(cmd.raw_udev_env))),
                            ZeroedDevice).dev

\* C9: an identify command whose payload decodes runs the phases ident,
\* scan-pre, scan-core-current, scan-core-next-basic, scan-core-next-extended,
\* scan-post in this order, each at most once, and no trigger-action phase;
\* the first phase that returns a negative value is the last one run and its
\* value is the result; with no such phase all six run. No other command
\* runs a phase.
C9_PhaseSequence ==
    \A cmd \in DoneCommands :
        IF cmd.fn = "identify" /\ ~MalformedPayload(cmd.raw_udev_env)
        THEN LET log == cmd.phases
                 n == Len(log)
             IN  /\ n >= 1
                 /\ \A i \in 1..n : log[i].phase = CMD_IDENT_PHASE_IDENT + (i - 1)
                 /\ \A i \in 1..n : log[i].phase <= CMD_IDENT_PHASE_SCAN_POST
                 /\ \A i \in 1..(n - 1) : log[i].ret >= 0
                 /\ log[n].ret >= 0 => log[n].phase = CMD_IDENT_PHASE_SCAN_POST
                 /\ cmd.r = log[n].ret
        ELSE cmd.phases = <<>>

\* C9 witness: an identify command was stopped by its third phase
C9_Witness ==
    \E cmd \in DoneCommands :
        /\ cmd.fn = "identify" /\ Len(cmd.phases) = 3
        /\ cmd.phases[3].ret < 0 /\ cmd.r = cmd.phases[3].ret

\* the uint16_t at offset i (from 0) of a payload of bytes
U16At(bytes, i) == bytes[i + 1] + 256 * bytes[i + 2]

\* C10: the response to a version request of protocol <= UBRIDGE_PROTOCOL is
\* 20 bytes long with status 0 and a 6-byte payload, the compiled major,
\* minor and release as three u16; the response to a reply, identify,
\* checkpoint or unknown request has no payload and is 14 bytes long.
C10_ResponsePayload ==
    \A cmd \in DoneCommands :
        IF TypeOfNumber(cmd.req.cmd_number) = CMD_VERSION
        THEN cmd.req.protocol <= UBRIDGE_PROTOCOL =>
                /\ cmd.result.len = 20
                /\ cmd.result.header.status = 0
                /\ Len(cmd.result.payload) = 6
                /\ U16At(cmd.result.payload, 0) = SID_VERSION_MAJOR
                /\ U16At(cmd.result.payload, 2) = SID_VERSION_MINOR
                /\ U16At(cmd.result.payload, 4) = SID_VERSION_RELEASE
        ELSE cmd.result.payload = <<>> /\ cmd.result.len = 14

\* C10 witness: a version request has been answered with a 20-byte frame,
\* and an identify request with a 14-byte one
C10_Witness ==
    /\ \E cmd \in DoneCommands : cmd.req.cmd_number = CMD_VERSION /\ cmd.result.len = 20
    /\ \E c \in ConnIds : \E k \in 1..Len(conn[c].tx) :
            conn[c].tx[k].len = 20 /\ Len(conn[c].tx[k].payload) = 6


(***************************************************************************)
(* The pool with one client more than it has room for workers, each client *)
(* sending one version request.                                            *)
(***************************************************************************)
DispatchConnIds == 1..(MaxConns + 1)

InitDispatch ==
    /\ observers = <<>>
    /\ worker = [p \in Pids |-> NoWorker]
    /\ to_worker = [p \in Pids |-> <<>>]
    /\ to_observer = [p \in Pids |-> <<>>]
    /\ conn = [c \in DispatchConnIds |-> NoConn]
    /\ backlog = <<>>
    /\ parent = NoParentFds
    /\ kv = EmptyKv
    /\ tree = RootOnly

NextDispatch ==
    \/ \E c \in DispatchConnIds : ClientRequest(c, VersionRequest)
    \/ \E c \in DispatchConnIds : ClientClose(c)
    \/ \E fork_ok, accept_ok, send_ok \in BOOLEAN :
          UbridgeInterfaceEvent(fork_ok, accept_ok, send_ok)
    \/ \E i \in Pids : ObserverCommsEvent(i)
    \/ \E i \in Pids : IdleTaskTimeoutEvent(i)
    \/ \E i \in Pids : ObserverChildEvent(i)
    \/ \E pid \in Pids : WorkerCommsEvent(pid, TRUE)
    \/ \E pid \in Pids : WorkerConnEvent(pid, TRUE)
    \/ \E pid \in Pids : CmdHandler(pid, StubPhaseRets)
    \/ \E pid \in Pids : WorkerSignalEvent(pid)

SpecDispatch == InitDispatch /\ [][NextDispatch]_vars

\* some observer child has an idle worker
SomeIdle(obs) == \E j \in 1..Len(obs) : obs[j].worker_state = WORKER_IDLE

\* C11: a connection is assigned to the first observer child, in insertion
\* order, whose worker_state is IDLE, and to a newly spawned one when none is
\* IDLE; a worker is spawned only when no observer is IDLE, and a listener
\* event that finds no observer IDLE and accepts a connection has spawned
\* one; no connection goes to an observer in INIT, RUNNING or FINI.
C11_FirstIdleOrSpawn ==
    [][/\ \A c \in DOMAIN conn :
            (conn[c].state = "queued" /\ conn'[c].state = "passed") =>
               \E i \in 1..Len(observers') :
                  /\ to_worker'[observers'[i].worker_pid]
                        = Append(to_worker[observers'[i].worker_pid], c)
                  /\ observers'[i].worker_state = WORKER_INIT
                  /\ IF SomeIdle(observers)
                     THEN /\ Len(observers') = Len(observers)
                          /\ observers[i].worker_state = WORKER_IDLE
                          /\ \A j \in 1..(i - 1) : observers[j].worker_state # WORKER_IDLE
                     ELSE i = Len(observers) + 1 /\ i = Len(observers')
       /\ Len(observers') > Len(observers) => ~SomeIdle(observers)
       /\ (Len(backlog') < Len(backlog) /\ ~SomeIdle(observers))
             => Len(observers') = Len(observers) + 1
      ]_vars

\* C11 witness: with both workers idle after a request each, the third
\* connection has gone to the first observer and the second is still idle
C11_Witness ==
    /\ Len(observers) = 2
    /\ observers[1].worker_state = WORKER_INIT
    /\ to_worker[observers[1].worker_pid] # <<>>
    /\ observers[2].worker_state = WORKER_IDLE
    /\ observers[2].idle_timeout_es = "armed"


\* connections 1 and 2, and no other, were accepted and passed; both
\* requests were answered, both clients have closed, every worker has
\* cleaned up, every control byte was received, and no idle timer has fired
BothCompleted ==
    /\ \A c \in DOMAIN conn :
          IF c \in {1, 2}
          THEN conn[c].state = "passed" /\ Len(conn[c].tx) = 1 /\ conn[c].client = "closed"
          ELSE conn[c].state = "none"
    /\ \A p \in Pids :
          /\ to_observer[p] = <<>> /\ to_worker[p] = <<>>
          /\ worker[p].state \in {"none", "running"}
          /\ worker[p].conn_es = 0 /\ ~worker[p].sigterm
    /\ \A i \in 1..Len(observers) : observers[i].idle_timeout_es # "fired"

AllIdle == \A i \in 1..Len(observers) : observers[i].worker_state = WORKER_IDLE

ServedAndQuiet(p) ==
    /\ worker[p].state = "running" /\ worker[p].conn_fd # 0
    /\ ~DeferredPending(worker[p])
    /\ Len(conn[worker[p].conn_fd].tx) >= 1
    /\ conn[worker[p].conn_fd].rx = <<>>
    /\ conn[worker[p].conn_fd].client = "open"
    /\ to_observer[p] = <<>> /\ to_worker[p] = <<>>

\* C13: once the worker has written the response of a request, the command
\* is destroyed and the observer gets back to IDLE with no further event:
\* a worker that has answered and has nothing left to do holds no command
\* and its observer is IDLE (or beyond, FINI), the client still connected.
C13_IdleAfterResponse ==
    \A p \in Pids :
        (ServedAndQuiet(p) /\ ObserverOf(p) # 0) =>
            /\ worker[p].children = <<>>
            /\ observers[ObserverOf(p)].worker_state \in {WORKER_IDLE, WORKER_FINI}


(***************************************************************************)
(* One worker and a client that writes several requests at once.           *)
(***************************************************************************)
OrderFrames ==
    {VersionRequest,
     Frame(UBRIDGE_PROTOCOL, CMD_REPLY, 0, <<>>),
     Frame(UBRIDGE_PROTOCOL + 1, CMD_VERSION, 0, <<>>)}

\* the requests of one client: one more than MaxFrames
Pipelines == {fs \in SeqsUpTo(OrderFrames, MaxFrames + 1) : Len(fs) = MaxFrames + 1}

NextOrder ==
    \/ \E fs \in Pipelines : ClientPipeline(1, fs)
    \/ ClientClose(1)
    \/ ClientReset(1)
    \/ UbridgeInterfaceEvent(TRUE, TRUE, TRUE)
    \/ ObserverCommsEvent(1)
    \/ WorkerCommsEvent(1, TRUE)
    \/ WorkerConnEvent(1, TRUE)
    \/ CmdHandler(1, StubPhaseRets)

SpecOrder == Init /\ [][NextOrder]_vars

\* the response _cmd_handler gives to request frame f
ResponseTo(f) ==
    _cmd_handler(_init_command([f EXCEPT !.header.cmd_number = SanitizeCmdNumber(@)],
                               f.header),
                 StubPhaseRets).response

\* C14: a worker handles its commands one at a time in arrival order: at
\* most one command waits for its handler, request frame k+1 is read only
\* when the response to frame k has been written, and the responses written
\* are those of the request frames read, in the same order.
C14_OneAtATimeInOrder ==
    /\ \A p \in Pids : NumPending(p) <= 1
    /\ \A c \in DOMAIN conn :
          /\ Len(conn[c].tx) <= Len(conn[c].reqs)
          /\ Len(conn[c].reqs) <= Len(conn[c].tx) + 1
          /\ \A k \in 1..Len(conn[c].tx) : conn[c].tx[k] = ResponseTo(conn[c].reqs[k])

\* C14 witness: two different responses were written to a connection whose
\* requests the client had written at once
C14_Witness ==
    \E c \in DOMAIN conn :
        /\ conn[c].nsent >= 2 /\ Len(conn[c].tx) >= 2
        /\ conn[c].tx[1] # conn[c].tx[2]


(***************************************************************************)
(* The pool without failures, with the progress its event loops make: an   *)
(* armed timer runs out, a signal sent is delivered, the exit of a child   *)
(* is reported.                                                            *)
(***************************************************************************)
NextIdle ==
    \/ \E c \in ConnIds : ClientRequest(c, VersionRequest)
    \/ \E c \in ConnIds : ClientClose(c)
    \/ UbridgeInterfaceEvent(TRUE, TRUE, TRUE)
    \/ \E i \in Pids : ObserverCommsEvent(i)
    \/ \E i \in Pids : IdleTaskTimeoutEvent(i)
    \/ \E i \in Pids : ObserverChildEvent(i)
    \/ \E pid \in Pids : WorkerCommsEvent(pid, TRUE)
    \/ \E pid \in Pids : WorkerConnEvent(pid, TRUE)
    \/ \E pid \in Pids : CmdHandler(pid, StubPhaseRets)
    \/ \E pid \in Pids : WorkerSignalEvent(pid)

SpecIdle ==
    /\ Init /\ [][NextIdle]_vars
    /\ \A i \in Pids : WF_vars(IdleTaskTimeoutEvent(i))
    /\ \A i \in Pids : WF_vars(ObserverChildEvent(i))
    /\ \A pid \in Pids : WF_vars(WorkerSignalEvent(pid))

\* the observer of worker pid is a child of the ubridge, in state st
ObserverIn(pid, st) ==
    ObserverOf(pid) # 0 /\ observers[ObserverOf(pid)].worker_state = st

\* C15: an observer that is IDLE with its idle timer armed is assigned a
\* connection or its timeout fires; when it fires the observer moves from
\* IDLE to FINI and SIGTERM is sent to its running worker; the worker then
\* exits, the child-exit event is handled and the observer is destroyed,
\* which takes exactly one observer from the children of the ubridge.
C15_IdleTimeoutEndsWorker ==
    /\ \A pid \in Pids :
          (ObserverIn(pid, WORKER_IDLE) /\ observers[ObserverOf(pid)].idle_timeout_es = "armed")
             ~> (ObserverIn(pid, WORKER_INIT) \/ ObserverIn(pid, WORKER_FINI))
    /\ \A pid \in Pids :
          ObserverIn(pid, WORKER_FINI) ~> (worker[pid].state = "exited" /\ ObserverOf(pid) = 0)
    /\ [][\A pid \in Pids :
            /\ (~ObserverIn(pid, WORKER_FINI) /\ ObserverIn(pid, WORKER_FINI)') =>
                  /\ ObserverIn(pid, WORKER_IDLE)
                  /\ worker[pid].state = "running" => worker'[pid].sigterm
            /\ (ObserverIn(pid, WORKER_FINI) /\ (ObserverOf(pid) = 0)') =>
                  /\ worker[pid].state = "exited"
                  /\ Len(observers') = Len(observers) - 1
       ]_vars

\* C15 witness: a worker that had answered a request has exited after the
\* timeout and its observer is gone, the other observer being left
C15_Witness ==
    \E pid \in Pids :
        /\ worker[pid].state = "exited" /\ ObserverOf(pid) = 0
        /\ Len(observers) = NumForked - 1
        /\ \E c \in ConnIds : Len(conn[c].tx) = 1 /\ conn[c].client = "closed"


(***************************************************************************)
(* The pool with workers that die at any time and requests that fail: an   *)
(* identify request with a malformed payload, a command that cannot be     *)
(* created, a connection that breaks.                                      *)
(***************************************************************************)
ExitFrames == {Frame(UBRIDGE_PROTOCOL, CMD_IDENTIFY, 0, Nullstr(<<E_NO_EQ>>))}

NextExit ==
    \/ \E c \in ConnIds, f \in ExitFrames : ClientRequest(c, f)
    \/ \E c \in ConnIds : ClientReset(c)
    \/ UbridgeInterfaceEvent(TRUE, TRUE, TRUE)
    \/ \E i \in Pids : ObserverCommsEvent(i)
    \/ \E i \in Pids : IdleTaskTimeoutEvent(i)
    \/ \E i \in Pids : ObserverChildEvent(i)
    \/ \E pid \in Pids : WorkerCommsEvent(pid, TRUE)
    \/ \E pid \in Pids, create_ok \in BOOLEAN : WorkerConnEvent(pid, create_ok)
    \/ \E pid \in Pids : CmdHandler(pid, StubPhaseRets)
    \/ \E pid \in Pids : WorkerSignalEvent(pid)
    \/ \E pid \in Pids : WorkerKilled(pid)

SpecExit == Init /\ [][NextExit]_vars

\* C16: the observer of a worker that has exited can be destroyed by the
\* child-exit event whatever its worker_state; an observer leaves the
\* children of the ubridge only in a step taken after its worker has
\* exited (not on a failed request, a read error or a connection error),
\* and that step leaves the other observers, in their order, the workers,
\* the channels and the connections as they were.
C16_DestroyedOnChildExitOnly ==
    /\ [](\A i \in 1..Len(observers) :
             worker[observers[i].worker_pid].state = "exited" => ENABLED ObserverChildEvent(i))
    /\ [][\A pid \in Pids :
            (ObserverOf(pid) # 0 /\ (ObserverOf(pid) = 0)') =>
                /\ worker[pid].state = "exited"
                /\ observers' = RemoveAt(observers, ObserverOf(pid))
                /\ UNCHANGED <<worker, to_worker, to_observer, conn, backlog>>
       ]_vars

\* C16 witness: an observer was destroyed before it had received the RUNNING
\* byte of its worker (in state INIT), after a request that failed, and the
\* other observer is still there
C16_Witness ==
    \E pid \in Pids :
        /\ worker[pid].state = "exited" /\ ObserverOf(pid) = 0
        /\ to_observer[pid] = <<INTERNAL_COMMS_CMD_RUNNING>>
        /\ Len(observers) = 1
        /\ \E c \in ConnIds : conn[c].client = "reset"


\* the open FDs of the parent beyond those it had after _init_ubridge: the
\* control-channel FD of each observer, the accepted connection FDs it
\* holds, and the FDs of socketpairs that have no owner
ParentFdsAboveBaseline ==
    Len(observers) + Cardinality(parent.conn_fds) + parent.stray_fds

\* C17: after every listener event the parent holds no accepted connection
\* FD, passed or not, and its open FDs are the baseline plus one control
\* channel FD for each live observer.
C17_ParentFdsAtBaseline ==
    /\ parent.conn_fds = {}
    /\ ParentFdsAboveBaseline = Len(observers)


\* the worker p reads from its connection in this step
ReadsChunk(p) ==
    /\ worker[p].conn_es # 0
    /\ conn[worker[p].conn_es].rx # <<>>
    /\ conn'[worker[p].conn_es].rx = Tail(conn[worker[p].conn_es].rx)

\* the connection buffer of worker p after the read of this step
BufferRead(p) == BufferAfterRead(worker[p].buf, Head(conn[worker[p].conn_es].rx))

\* used >= 4 and used >= the big-endian u32 at offset 0
PrefixReached(buf) ==
    buf.used >= 4 /\ buf.used >= U32BEValue(BufferPrefix(buf))

\* C18: is_complete() holds exactly when used >= 4 and used >= the
\* big-endian u32 at offset 0, which is when the whole frame is in the
\* buffer; a worker gets a new command only in a step in which it reads and
\* is_complete() holds on the buffer after the read; after a read that
\* leaves the frame incomplete it has no new command and the buffer holds the
\* bytes it held plus the bytes read.
C18_CommandOnlyWhenComplete ==
    [][\A p \in Pids :
        /\ Len(worker'[p].children) > Len(worker[p].children)
              => /\ ReadsChunk(p)
                 /\ buffer_is_complete(BufferRead(p))
        /\ ReadsChunk(p)
              => /\ buffer_is_complete(BufferRead(p)) <=> PrefixReached(BufferRead(p))
                 /\ buffer_is_complete(BufferRead(p))
                        <=> BufferRead(p).used >= BufferRead(p).data.len
        /\ (ReadsChunk(p) /\ ~buffer_is_complete(BufferRead(p)))
              => /\ worker'[p].children = worker[p].children
                 /\ worker'[p].buf.used
                        = worker[p].buf.used + Head(conn[worker[p].conn_es].rx).n
                 /\ worker'[p].buf.used > worker[p].buf.used
                 /\ worker'[p].buf.data = Head(conn[worker[p].conn_es].rx).frame
      ]_vars

\* a worker holds the size prefix and part of the header of a frame and has
\* no command
C18_Witness ==
    \E p \in Pids :
        /\ worker[p].state = "running"
        /\ worker[p].buf.used >= MSG_SIZE_PREFIX_LEN
        /\ worker[p].buf.used < worker[p].buf.data.len
        /\ worker[p].children = <<>>


(***************************************************************************)
(* The key-value store: calls of set, get and unset on one store.          *)
(***************************************************************************)
KvPrefixes == {<<"p">>, <<"q">>}
KvKeys == {<<"k">>}
KvFlags == 0..(KV_STORE_VALUE_VECTOR + KV_STORE_VALUE_REF + KV_STORE_VALUE_MERGE)
KvResolvers == {NoResolver, Resolver(0), Resolver(1)}

\* what callers pass as value: two plain values and an iovec of two members
KvInputs ==
    {[iov |-> <<<<1>>>>, ptr |-> CallerPtr(1)],
     [iov |-> <<<<2, 3>>>>, ptr |-> CallerPtr(2)],
     [iov |-> <<<<1>>, <<2, 3>>>>, ptr |-> CallerPtr(3)]}

\* the flags a caller passes with a value: VECTOR with the iovec, and only
\* with it
KvFlagsFor(value) ==
    {f \in KvFlags : HasFlag(f, KV_STORE_VALUE_VECTOR) <=> Len(value.iov) > 1}

\* kv_store_set_value(key_prefix, key, value, value_size, flags, resolver)
KvSet(key_prefix, key, value, flags, resolver) ==
    /\ HasFlag(flags, KV_STORE_VALUE_VECTOR) \/ Len(value.iov) = 1
    /\ LET ckey == CompositeKey(key_prefix, key)
       IN  kv' = [store |-> KvStoreAfterSet(kv.store, KvEntry(ckey, value, flags), resolver),
                  last |-> [NoCall EXCEPT !.op = "set", !.ckey = ckey, !.value = value,
                                          !.flags = flags, !.resolver = resolver,
                                          !.existed = KvLookup(kv.store, ckey) # {}]]
    /\ UNCHANGED <<observers, worker, to_worker, to_observer, conn, backlog, parent, tree>>

\* kv_store_get_value(key_prefix, key, &value_size)
KvGet(key_prefix, key) ==
    /\ LET ckey == CompositeKey(key_prefix, key)
           found == KvLookup(kv.store, ckey)
       IN  kv' = [kv EXCEPT !.last =
                    IF found = {}
                    THEN [NoCall EXCEPT !.op = "get", !.ckey = ckey]
                    ELSE LET e == CHOOSE e \in found : TRUE
                         IN  [NoCall EXCEPT !.op = "get", !.ckey = ckey, !.existed = TRUE,
                                            !.ret_value = e.value, !.ret_size = e.size,
                                            !.ret_ptr = e.ptr]]
    /\ UNCHANGED <<observers, worker, to_worker, to_observer, conn, backlog, parent, tree>>

\* kv_store_unset_value(key_prefix, key, resolver)
KvUnset(key_prefix, key, resolver) ==
    /\ LET ckey == CompositeKey(key_prefix, key)
       IN  kv' = [store |-> KvStoreAfterUnset(kv.store, ckey, resolver),
                  last |-> [NoCall EXCEPT !.op = "unset", !.ckey = ckey,
                                          !.resolver = resolver,
                                          !.existed = KvLookup(kv.store, ckey) # {},
                                          !.ret = IF KvUnsets(kv.store, ckey, resolver)
                                                  THEN 0 ELSE -1]]
    /\ UNCHANGED <<observers, worker, to_worker, to_observer, conn, backlog, parent, tree>>

NextKV ==
    \/ \E p \in KvPrefixes, k \in KvKeys, v \in KvInputs, r \in KvResolvers :
            \E f \in KvFlagsFor(v) : KvSet(p, k, v, f, r)
    \/ \E p \in KvPrefixes, k \in KvKeys : KvGet(p, k)
    \/ \E p \in KvPrefixes, k \in KvKeys, r \in KvResolvers : KvUnset(p, k, r)

SpecKV == Init /\ [][NextKV]_vars


\* the last call was a set that stored its value: the key was new, or there
\* was no resolver, or the resolver returned 1
SetStored(last) ==
    /\ last.op = "set"
    /\ ~last.existed \/ ~last.resolver.present \/ last.resolver.ret = 1

\* rows E, G and H of the table: a vector value that is not merged into a
\* single value
IovecRow(flags) ==
    /\ HasFlag(flags, KV_STORE_VALUE_VECTOR)
    /\ HasFlag(flags, KV_STORE_VALUE_REF) \/ ~HasFlag(flags, KV_STORE_VALUE_MERGE)

\* C19: for every combination of VECTOR, REF and MERGE, a get that follows a
\* set of v under the same prefix and key returns the bytes of v (as v was
\* given, or merged into a single value in row F), with the iovec size in
\* rows E, G and H and the value size in the other rows; with REF and
\* without MERGE the pointer is the caller's, without REF it is not.
C19_SetGetRoundTrip ==
    [][(SetStored(kv.last) /\ kv'.last.op = "get" /\ kv'.last.ckey = kv.last.ckey)
        => LET v == kv.last.value
               flags == kv.last.flags
               got == kv'.last
           IN  /\ got.ret_ptr # NullPtr
               /\ Merged(got.ret_value) = Merged(v.iov)
               /\ IF IovecRow(flags)
                  THEN got.ret_value = v.iov /\ got.ret_size = Len(v.iov)
                  ELSE Len(got.ret_value) = 1 /\ got.ret_size = Len(Merged(v.iov))
               /\ (HasFlag(flags, KV_STORE_VALUE_REF) /\ ~HasFlag(flags, KV_STORE_VALUE_MERGE))
                      => got.ret_ptr = v.ptr
               /\ ~HasFlag(flags, KV_STORE_VALUE_REF) => got.ret_ptr # v.ptr
      ]_vars

\* a get has returned the single value of three bytes that a set with VECTOR
\* and MERGE made of an iovec of two members
C19_Witness ==
    /\ kv.last.op = "get"
    /\ kv.last.ret_ptr = StorePtr
    /\ kv.last.ret_value = <<<<1, 2, 3>>>>
    /\ kv.last.ret_size = 3

\* C20: a set for a composite key that exists leaves the store as it was
\* when the resolver returns 0, and puts the new entry in the place of the
\* old one when the resolver returns 1 or there is none; after any set the
\* store has exactly one entry for the key. An unset of a key that exists
\* returns 0 and removes the entry when the resolver confirms or there is
\* none, and returns -1 and leaves the store as it was when it declines.
C20_ResolverDecides ==
    [][LET call == kv'.last
           old == KvLookup(kv.store, call.ckey)
           new == KvLookup(kv'.store, call.ckey)
           others == kv.store \ old
           keeps == call.resolver.present /\ call.resolver.ret = 0
       IN  /\ (call.op = "set" /\ old # {})
                => /\ keeps => kv'.store = kv.store
                   /\ ~keeps => /\ new = {KvEntry(call.ckey, call.value, call.flags)}
                                /\ kv'.store \ new = others
           /\ call.op = "set" => Cardinality(new) = 1
           /\ (call.op = "unset" /\ old # {})
                => /\ ~keeps => call.ret = 0 /\ new = {} /\ kv'.store = others
                   /\ keeps => call.ret = -1 /\ kv'.store = kv.store
      ]_vars

\* a set with a resolver that returned 0 has left another value stored
\* under the key
C20_Witness ==
    /\ kv.last.op = "set"
    /\ kv.last.existed
    /\ kv.last.resolver = Resolver(0)
    /\ \E e \in KvLookup(kv.store, kv.last.ckey) :
            e # KvEntry(kv.last.ckey, kv.last.value, kv.last.flags)


(***************************************************************************)
(* The resource tree: calls of the resource interface on one tree, from    *)
(* outside the event loop and from inside a handler the loop dispatches.   *)
(***************************************************************************)
\* sid_resource_create(par, ...)
TreeCreate(par) ==
    /\ par \in tree.nodes
    /\ tree.made < MaxNodes
    /\ tree' = [TreeAfterCreate(tree, par) EXCEPT
                    !.last = [op |-> "create", res |-> tree.made + 1, ret |-> 0]]
    /\ UNCHANGED <<observers, worker, to_worker, to_observer, conn, backlog, parent, kv>>

\* sid_resource_create_*_event_source(res, ...): registered on the loop of
\* the root
TreeCreateEventSource(n) ==
    /\ n \in tree.nodes
    /\ n \notin tree.es
    /\ tree' = [tree EXCEPT !.es = @ \cup {n},
                            !.last = [op |-> "create_event_source", res |-> n, ret |-> 0]]
    /\ UNCHANGED <<observers, worker, to_worker, to_observer, conn, backlog, parent, kv>>

\* the event loop of the root dispatches an event to its handler
TreeDispatch ==
    /\ Root \in tree.nodes
    /\ ~tree.dispatch
    /\ tree.es # {}
    /\ tree' = [tree EXCEPT !.dispatch = TRUE,
                            !.last = [op |-> "dispatch", res |-> Root, ret |-> 0]]
    /\ UNCHANGED <<observers, worker, to_worker, to_observer, conn, backlog, parent, kv>>

\* the handler returns to the event loop
TreeHandlerReturn ==
    /\ tree.dispatch
    /\ tree' = [tree EXCEPT !.dispatch = FALSE,
                            !.last = [op |-> "return", res |-> Root, ret |-> 0]]
    /\ UNCHANGED <<observers, worker, to_worker, to_observer, conn, backlog, parent, kv>>

\* sid_resource_destroy(n). A caller destroys its iterator before it
\* destroys the resource the iterator ranges over
TreeDestroy(n) ==
    /\ n \in tree.nodes
    /\ tree.iter.res \in Subtree(tree, n) => DrivingDispatch(tree, n)
    /\ LET d == sid_resource_destroy(tree, n)
       IN  tree' = [d.tree EXCEPT !.last = [op |-> "destroy", res |-> n, ret |-> d.ret]]
    /\ UNCHANGED <<observers, worker, to_worker, to_observer, conn, backlog, parent, kv>>

\* sid_resource_iter_create(n)
TreeIterCreate(n) ==
    /\ n \in tree.nodes
    /\ tree.iter.res = 0
    /\ tree' = [tree EXCEPT !.iter = sid_resource_iter_create(tree, n),
                            !.last = [op |-> "iter_create", res |-> n, ret |-> 0]]
    /\ UNCHANGED <<observers, worker, to_worker, to_observer, conn, backlog, parent, kv>>

\* sid_resource_iter_next(iter), until it has returned NULL
TreeIterNext ==
    /\ tree.iter.res # 0
    /\ ~tree.iter.ended
    /\ LET it == sid_resource_iter_next(tree, tree.iter)
       IN  tree' = [tree EXCEPT !.iter = it,
                                !.last = [op |-> "iter_next", res |-> IterAt(it, it.pos),
                                          ret |-> 0]]
    /\ UNCHANGED <<observers, worker, to_worker, to_observer, conn, backlog, parent, kv>>

\* sid_resource_iter_destroy(iter)
TreeIterDestroy ==
    /\ tree.iter.res # 0
    /\ tree' = [tree EXCEPT !.iter = NoIter,
                            !.last = [op |-> "iter_destroy", res |-> 0, ret |-> 0]]
    /\ UNCHANGED <<observers, worker, to_worker, to_observer, conn, backlog, parent, kv>>

\* the loop of _worker_cleanup on the children of a resource: an iterator
\* of its own is created, every child it yields is destroyed, the iterator
\* is destroyed
TreeCleanup(n) ==
    /\ n \in tree.nodes
    /\ tree.kids[n] # <<>>
    /\ tree.iter.res \notin Subtree(tree, n) \ {n}
    /\ tree' = [TreeAfterCleanupLoop(tree, sid_resource_iter_create(tree, n)) EXCEPT
                    !.last = [op |-> "cleanup", res |-> n, ret |-> 0]]
    /\ UNCHANGED <<observers, worker, to_worker, to_observer, conn, backlog, parent, kv>>

NextTree ==
    \/ \E n \in NodeIds : TreeCleanup(n)
    \/ \E par \in NodeIds : TreeCreate(par)
    \/ \E n \in NodeIds : TreeCreateEventSource(n)
    \/ TreeDispatch
    \/ TreeHandlerReturn
    \/ \E n \in NodeIds : TreeDestroy(n)
    \/ \E n \in NodeIds : TreeIterCreate(n)
    \/ TreeIterNext
    \/ TreeIterDestroy

SpecTree == Init /\ [][NextTree]_vars

\* C21: a destroy of a resource that is not driving an active dispatch of
\* its event loop returns 0, and the resources reachable from the root
\* afterwards are those reachable before without the subtree of the
\* resource: nothing outside the subtree is removed, nothing of the subtree
\* is still a child of anything or handed out by the iterator.
C21_DestroyRemovesSubtree ==
    [][\A n \in NodeIds :
        (tree'.last = [op |-> "destroy", res |-> n, ret |-> 0] /\ tree'.last # tree.last)
            => /\ ~DrivingDispatch(tree, n)
               /\ Reachable(tree') = Reachable(tree) \ Subtree(tree, n)
               /\ tree'.nodes = tree.nodes \ Subtree(tree, n)
               /\ Reachable(tree') = tree'.nodes
               /\ \A m \in tree'.nodes : \A i \in 1..Len(tree'.kids[m]) :
                      tree'.kids[m][i] \notin Subtree(tree, n)
               /\ \A m \in tree'.nodes : tree'.kids[m] = Without(tree.kids[m], n)
               /\ IterAt(tree'.iter, IterNextPos(tree', tree'.iter)) \notin Subtree(tree, n)
      ]_vars

\* a resource with a child of its own was destroyed and its sibling is
\* still in the tree
C21_Witness ==
    /\ tree.last = [op |-> "destroy", res |-> 2, ret |-> 0]
    /\ tree.made = 4
    /\ tree.nodes = {Root, 3}
    /\ tree.kids[Root] = <<3>>


\* C22: a destroy of the resource that owns the event loop, called from
\* inside a handler that loop dispatches, returns an error and leaves the
\* tree, the children of the resource and the event sources as they were.
C22_DestroyInDispatchFails ==
    [][(tree'.last.op = "destroy" /\ tree'.last # tree.last
            /\ DrivingDispatch(tree, tree'.last.res))
        => /\ tree'.last.ret < 0
           /\ tree'.nodes = tree.nodes
           /\ tree'.up = tree.up
           /\ tree'.kids = tree.kids
           /\ tree'.es = tree.es
           /\ tree'.dispatch
           /\ tree'.iter = tree.iter
      ]_vars

\* a handler has called destroy on the root, which has children and event
\* sources, and got an error
C22_Witness ==
    /\ tree.last = [op |-> "destroy", res |-> Root, ret |-> -1]
    /\ tree.dispatch
    /\ Len(tree.kids[Root]) >= 2
    /\ Root \in tree.es
    /\ tree.es # {Root}


\* the iterator has yielded entries of its snapshot in the order of the
\* snapshot, none of them twice
YieldedInOrder(it) ==
    \E pos \in [1..Len(it.yielded) -> 1..Len(it.snap)] :
        /\ \A k \in 1..Len(it.yielded) : it.snap[pos[k]] = it.yielded[k]
        /\ \A j, k \in 1..Len(it.yielded) : j < k => pos[j] < pos[k]

\* C23: the iterator ranges over the child list as it was at iter_create;
\* with children destroyed and created during the iteration, every
\* iter_next yields a child of the snapshot that is not destroyed, later in
\* the snapshot than all it has yielded; when it has returned NULL, every
\* child of the snapshot that is still there was yielded; and the loop of
\* _worker_cleanup leaves the resource without children.
C23_IterationOverSnapshot ==
    /\ [](tree.iter.res # 0 => YieldedInOrder(tree.iter))
    /\ []((tree.iter.res # 0 /\ tree.iter.ended)
            => \A i \in 1..Len(tree.iter.snap) :
                  tree.iter.snap[i] \in tree.nodes
                      => \E k \in 1..Len(tree.iter.yielded) :
                            tree.iter.yielded[k] = tree.iter.snap[i])
    /\ [][/\ (tree'.last.op = "iter_create" /\ tree'.last # tree.last)
                => tree'.iter.snap = tree.kids[tree'.last.res]
          /\ (tree.iter.res # 0 /\ tree'.iter.res # 0)
                => tree'.iter.snap = tree.iter.snap
          /\ (tree'.last.op = "iter_next" /\ tree'.last # tree.last /\ tree'.last.res # 0)
                => /\ tree'.last.res \in tree.nodes
                   /\ tree'.iter.yielded = Append(tree.iter.yielded, tree'.last.res)
          /\ (tree'.last.op = "cleanup" /\ tree'.last # tree.last)
                => /\ tree'.kids[tree'.last.res] = <<>>
                   /\ tree'.nodes = tree.nodes \ (Subtree(tree, tree'.last.res) \ {tree'.last.res})
         ]_vars

\* an iteration has ended in which the first child of the snapshot was
\* yielded, the second was destroyed before the iterator came to it and
\* the third was yielded
C23_Witness ==
    /\ tree.iter.res = Root
    /\ tree.iter.ended
    /\ tree.iter.snap = <<2, 3, 4>>
    /\ tree.iter.yielded = <<2, 4>>
    /\ 3 \notin tree.nodes


\* C24: after every listener event the parent has the signal mask it had
\* before, whether _spawn_worker was not called, forked or failed to fork;
\* a forked worker has all signals blocked, as they were at the fork, and
\* keeps them blocked once its resource and event sources exist.
C24_SignalMaskAroundFork ==
    /\ parent.sigmask = SIGMASK_ORIGINAL
    /\ \A p \in Pids : worker[p].state # "none" => worker[p].sigmask = SIGMASK_ALL

\* one fork has failed and one has succeeded
C24_Witness ==
    /\ parent.stray_fds > 0
    /\ parent.sigmask = SIGMASK_ORIGINAL
    /\ \E p \in Pids : worker[p].state = "running" /\ worker[p].sigmask = SIGMASK_ALL


\* C25: a worker that runs its event loop holds neither the listener socket
\* nor the control channel FD of an observer of the parent: the resource
\* tree it inherited was destroyed before it entered the loop.
C25_ChildHoldsNoParentFd ==
    \A p \in Pids : worker[p].state = "running" => worker[p].inherited = NoInherited


(***************************************************************************)
(* Reads that fail: one client on the first connection, served by the      *)
(* first worker, whose reads may fail with an errno.                       *)
(***************************************************************************)
ReadErrnos == {EAGAIN, EINTR, EIO, ECONNRESET}

NextRead ==
    \/ ClientConnect(1)
    \/ \E k \in SplitPoints : ClientSend(1, VersionRequest, k)
    \/ ClientSendRest(1)
    \/ ClientClose(1)
    \/ ClientReset(1)
    \/ UbridgeInterfaceEvent(TRUE, TRUE, TRUE)
    \/ ObserverCommsEvent(1)
    \/ WorkerCommsEvent(1, TRUE)
    \/ WorkerConnEvent(1, TRUE)
    \/ \E err \in ReadErrnos : WorkerConnReadError(1, err)
    \/ CmdHandler(1, StubPhaseRets)

SpecRead == Init /\ [][NextRead]_vars

\* _on_worker_conn_event of worker p runs in this step on a failed read, on
\* end of file or on EPOLLERR: the worker changes, nothing is taken from
\* the connection or from the control channel
ConnEventWithoutData(p) ==
    /\ worker[p].state = "running"
    /\ worker'[p].state = "running"
    /\ worker[p].conn_es # 0
    /\ ~DeferredPending(worker[p])
    /\ worker'[p] # worker[p]
    /\ UNCHANGED <<conn, to_worker, observers>>

\* C26: a read that fails with EAGAIN or EINTR changes nothing but errno:
\* the command children, the connection event source and the buffer stay,
\* no byte goes to the observer; any other failed read, end of file and
\* EPOLLERR destroy the command children and the connection event source,
\* reset the buffer and send the IDLE byte.
C26_RetryOrCleanup ==
    [][\A p \in Pids :
        ConnEventWithoutData(p)
            => IF worker'[p].errno # worker[p].errno /\ worker'[p].errno \in {EAGAIN, EINTR}
               THEN /\ worker'[p] = [worker[p] EXCEPT !.errno = worker'[p].errno]
                    /\ to_observer' = to_observer
               ELSE /\ worker'[p].children = <<>>
                    /\ worker'[p].conn_es = 0
                    /\ worker'[p].buf = EmptyBuffer
                    /\ to_observer'[p] = Append(to_observer[p], INTERNAL_COMMS_CMD_IDLE)
      ]_vars

\* a read has failed with EINTR after part of a frame was read: the bytes
\* are in the buffer and the connection is still registered
C26_Witness ==
    \E p \in Pids :
        /\ worker[p].errno = EINTR
        /\ worker[p].conn_es # 0
        /\ worker[p].buf.used > 0
        /\ to_observer[p] = <<>>


\* the observer of worker p, in the list obs
ObserverRecord(obs, p) == obs[CHOOSE i \in 1..Len(obs) : obs[i].worker_pid = p]

\* worker p has an observer in the list obs
Observed(obs, p) == \E i \in 1..Len(obs) : obs[i].worker_pid = p

\* C27: an observer has an armed idle timer only in WORKER_IDLE; a timer is
\* created only when the observer has none, so there is never more than
\* one; and an observer goes to WORKER_FINI, which is when it sends SIGTERM,
\* only from WORKER_IDLE with its timer armed, never from WORKER_INIT or
\* WORKER_RUNNING.
C27_TimerOnlyWhileIdle ==
    /\ [](\A i \in 1..Len(observers) :
            observers[i].idle_timeout_es = "armed"
                => observers[i].worker_state = WORKER_IDLE)
    /\ [][\A p \in Pids :
            (Observed(observers, p) /\ Observed(observers', p))
                => /\ (/\ to_observer[p] # <<>>
                       /\ to_observer'[p] = Tail(to_observer[p])
                       /\ Head(to_observer[p]) = INTERNAL_COMMS_CMD_IDLE)
                          => ObserverRecord(observers, p).idle_timeout_es = "null"
                   /\ (/\ ObserverRecord(observers', p).worker_state = WORKER_FINI
                       /\ ObserverRecord(observers, p).worker_state # WORKER_FINI)
                          => /\ ObserverRecord(observers, p).worker_state = WORKER_IDLE
                             /\ ObserverRecord(observers, p).idle_timeout_es = "armed"
         ]_vars

\* the only worker, which has served the first connection and was idle
\* with its timer armed, has been given the second connection and has no
\* timer
C27_Witness ==
    /\ NumForked = 1
    /\ Len(observers) = 1
    /\ observers[1].worker_state = WORKER_INIT
    /\ observers[1].idle_timeout_es = "null"
    /\ conn[1].client = "closed"
    /\ conn[2].state = "passed"


\* C28: a connection FD is sent to a worker only by an observer that is in
\* WORKER_IDLE, which it is right after the spawn and after the worker's
\* IDLE report; no more than one FD is on its way to a worker; and when the
\* worker receives an FD it has no connection event source and no command
\* children, so it never serves two connections at once.
C28_OneConnectionPerWorker ==
    /\ [](\A p \in Pids : Len(to_worker[p]) <= 1)
    /\ [][\A p \in Pids :
            /\ (Len(to_worker'[p]) > Len(to_worker[p]))
                  => \/ ~Observed(observers, p)
                     \/ ObserverRecord(observers, p).worker_state = WORKER_IDLE
            /\ (/\ to_worker[p] # <<>>
                /\ to_worker'[p] = Tail(to_worker[p])
                /\ worker'[p].conn_fd = Head(to_worker[p]))
                  => /\ worker[p].conn_es = 0
                     /\ worker[p].children = <<>>
                     /\ worker[p].buf = EmptyBuffer
         ]_vars

\* the only worker has served the first connection to its end and has
\* received and registered the second
C28_Witness ==
    /\ NumForked = 1
    /\ conn[1].client = "closed"
    /\ conn[1].tx # <<>>
    /\ worker[1].state = "running"
    /\ worker[1].conn_fd = 2
    /\ worker[1].conn_es = 2


(***************************************************************************)
(* The pool under fair scheduling: every handler of the parent and of the  *)
(* workers whose event is due runs in the end; accept4(2), the sending of  *)
(* an FD and the registering of a connection may fail. Clients are under   *)
(* no obligation.                                                          *)
(***************************************************************************)
NextLive ==
    \/ \E c \in ConnIds : ClientRequest(c, VersionRequest)
    \/ \E c \in ConnIds : ClientClose(c)
    \/ \E accept_ok, send_ok \in BOOLEAN : UbridgeInterfaceEvent(TRUE, accept_ok, send_ok)
    \/ \E i \in Pids : ObserverCommsEvent(i)
    \/ \E i \in Pids : IdleTaskTimeoutEvent(i)
    \/ \E i \in Pids : ObserverChildEvent(i)
    \/ \E pid \in Pids, reg_ok \in BOOLEAN : WorkerCommsEvent(pid, reg_ok)
    \/ \E pid \in Pids : WorkerConnEvent(pid, TRUE)
    \/ \E pid \in Pids : CmdHandler(pid, StubPhaseRets)
    \/ \E pid \in Pids : WorkerSignalEvent(pid)

SpecLive ==
    /\ Init /\ [][NextLive]_vars
    /\ WF_vars(\E accept_ok, send_ok \in BOOLEAN : UbridgeInterfaceEvent(TRUE, accept_ok, send_ok))
    /\ \A i \in Pids : WF_vars(ObserverCommsEvent(i))
    /\ \A i \in Pids : WF_vars(IdleTaskTimeoutEvent(i))
    /\ \A i \in Pids : WF_vars(ObserverChildEvent(i))
    /\ \A pid \in Pids : WF_vars(\E reg_ok \in BOOLEAN : WorkerCommsEvent(pid, reg_ok))
    /\ \A pid \in Pids : WF_vars(WorkerConnEvent(pid, TRUE))
    /\ \A pid \in Pids : WF_vars(CmdHandler(pid, StubPhaseRets))
    /\ \A pid \in Pids : WF_vars(WorkerSignalEvent(pid))

\* C29: an observer in WORKER_INIT gets to WORKER_RUNNING or is destroyed,
\* or its worker process ends: it does not stay in WORKER_INIT with a live
\* worker for ever.
C29_InitLeadsToRunning ==
    \A pid \in Pids :
        ObserverIn(pid, WORKER_INIT)
            ~> (ObserverIn(pid, WORKER_RUNNING) \/ ObserverOf(pid) = 0
                    \/ worker[pid].state # "running")

\* C30: an observer in WORKER_IDLE does not stay there for ever: it is
\* given a connection, or its idle timeout fires and it goes on to
\* WORKER_FINI and is destroyed; and an observer in WORKER_IDLE whose worker
\* lives gets a timer armed if it has none.
C30_IdleLeadsToReaped ==
    /\ \A pid \in Pids :
          ObserverIn(pid, WORKER_IDLE) ~> ~ObserverIn(pid, WORKER_IDLE)
    /\ \A pid \in Pids :
          (ObserverIn(pid, WORKER_IDLE) /\ observers[ObserverOf(pid)].idle_timeout_es # "armed")
             ~> ~(ObserverIn(pid, WORKER_IDLE)
                    /\ observers[ObserverOf(pid)].idle_timeout_es # "armed"
                    /\ worker[pid].state = "running")


\* C31: a worker process has at most one connection FD open, and the one it
\* has open is the one stored in conn_fd: no FD of a connection served
\* before is left open.
C31_WorkerHoldsOneConnFd ==
    \A p \in Pids :
        worker[p].state = "running" =>
            /\ Cardinality(worker[p].open_fds) <= 1
            /\ worker[p].open_fds \subseteq {worker[p].conn_fd}

\* a run of _on_ubridge_interface_event that returned -1
ListenerFailed ==
    /\ parent' # parent \/ (backlog # <<>> /\ backlog' = Tail(backlog))
    /\ parent'.ret = -1

\* C32: a listener event whose pass of the connection fails returns -1,
\* sends no FD and leaves every observer as it was (an idle observer stays
\* in WORKER_IDLE and its armed timer stays armed; an observer just created
\* stays as _init_observer made it); an observer gets to WORKER_INIT, and
\* the timer of an idle observer is cancelled, only in a step that has sent
\* the FD to its worker and returned 0.
C32_FailedPassLeavesObserver ==
    [][/\ ListenerFailed =>
            /\ to_worker' = to_worker
            /\ \A i \in 1..Len(observers) : observers'[i] = observers[i]
            /\ Len(observers') \in {Len(observers), Len(observers) + 1}
            /\ Len(observers') > Len(observers) =>
                   observers'[Len(observers')] = NewObserver(observers'[Len(observers')].worker_pid)
       /\ \A c \in DOMAIN conn :
            (conn[c].state = "queued" /\ conn'[c].state = "dropped") => parent'.ret = -1
       /\ \A p \in Pids :
            /\ ( /\ Observed(observers', p)
                 /\ ObserverRecord(observers', p).worker_state = WORKER_INIT
                 /\ ~(Observed(observers, p)
                        /\ ObserverRecord(observers, p).worker_state = WORKER_INIT) )
                  => /\ backlog # <<>>
                     /\ to_worker'[p] = Append(to_worker[p], Head(backlog))
                     /\ parent'.ret = 0
                     /\ ObserverRecord(observers', p).idle_timeout_es = "null"
                     /\ Observed(observers, p) =>
                            ObserverRecord(observers, p).worker_state = WORKER_IDLE
            /\ ( /\ Observed(observers, p) /\ Observed(observers', p)
                 /\ ObserverRecord(observers, p).worker_state = WORKER_IDLE
                 /\ ObserverRecord(observers, p).idle_timeout_es = "armed"
                 /\ ObserverRecord(observers', p).worker_state = WORKER_IDLE )
                  => ObserverRecord(observers', p).idle_timeout_es = "armed"
      ]_vars

\* the last listener event found observer 1 idle with its timer armed and
\* failed to pass it a connection (the only worker ever forked has served a
\* connection before): the observer is still idle and the timer still armed
C32_Witness ==
    /\ parent.ret = -1
    /\ parent.stray_fds = 0
    /\ NumForked = 1
    /\ worker[1].state = "running" /\ worker[1].open_fds # {}
    /\ Len(observers) = 1
    /\ observers[1].worker_state = WORKER_IDLE
    /\ observers[1].idle_timeout_es = "armed"
    /\ \E c \in DOMAIN conn : conn[c].state = "dropped"

(***************************************************************************)
(* Frame lengths: one client on the first connection sends frames of any   *)
(* total length, also shorter than size prefix plus header, in one or two  *)
(* parts.                                                                  *)
(***************************************************************************)
\* the values a client puts into the size prefix of a frame that has no
\* whole header
ShortLens == {0, 3, MSG_SIZE_PREFIX_LEN, MSG_SIZE_PREFIX_LEN + 1,
              MSG_SIZE_PREFIX_LEN + RAW_COMMAND_HEADER_LEN - 1}

\* frames without a whole header; the fields of the header that were not
\* sent are what the memory of the buffer holds
ShortFrames ==
    {[len |-> t, header |-> RawCommandHeader(UBRIDGE_PROTOCOL, n, 0), payload |-> <<>>] :
        t \in ShortLens, n \in {CMD_VERSION, 255}}

\* frames with a whole header and a payload of 0, 1, 2 and more bytes
WholeFrames ==
    {Frame(UBRIDGE_PROTOCOL, CMD_VERSION, 0, pl) : pl \in {<<>>, <<"A">>, <<"A", NUL>>}}
    \cup {Frame(UBRIDGE_PROTOCOL, CMD_IDENTIFY, 42, Nullstr(ScenarioEntries))}

LenFrames == ShortFrames \cup WholeFrames

NextFrame ==
    \/ ClientConnect(1)
    \/ \E f \in LenFrames, k \in SplitPoints : ClientSend(1, f, k)
    \/ ClientSendRest(1)
    \/ ClientClose(1)
    \/ UbridgeInterfaceEvent(TRUE, TRUE, TRUE)
    \/ ObserverCommsEvent(1)
    \/ WorkerCommsEvent(1, TRUE)
    \/ \E create_ok \in BOOLEAN : WorkerConnEvent(1, create_ok)
    \/ CmdHandler(1, StubPhaseRets)

SpecFrame == Init /\ [][NextFrame]_vars

\* the bytes of a whole frame in front of its payload
FrameOverhead == MSG_SIZE_PREFIX_LEN + RAW_COMMAND_HEADER_LEN

\* C33: the payload length of every command is the number of payload bytes
\* and no wrapped value; a read that completes a frame of fewer bytes than
\* size prefix plus header makes no command, and a read that makes a command
\* completed a frame of at least that many bytes and gave the command the
\* payload length total - 4 - 10.
C33_PayloadLengthNoWrap ==
    /\ [](\A p \in Pids : \A k \in 1..Len(worker[p].children) :
            LET cmd == worker[p].children[k]
            IN  /\ cmd.raw_udev_env_len = SizeT(Len(cmd.raw_udev_env))
                /\ ~MallocFails(cmd.raw_udev_env_len))
    /\ [][\A p \in Pids :
            (ReadsChunk(p) /\ buffer_is_complete(BufferRead(p))) =>
                LET total == BufferRead(p).used
                    new == worker'[p].children[Len(worker'[p].children)]
                IN  /\ total < FrameOverhead => worker'[p].children = worker[p].children
                    /\ Len(worker'[p].children) > Len(worker[p].children) =>
                          /\ total >= FrameOverhead
                          /\ new.raw_udev_env_len = SizeT(total - FrameOverhead)
                          /\ Len(new.raw_udev_env) = total - FrameOverhead
      ]_vars

\* the worker has read a complete frame of fewer than 14 bytes, whose
\* payload length wraps around, and has no command
C33_Witness ==
    /\ worker[1].state = "running"
    /\ worker[1].children = <<>>
    /\ worker[1].buf = EmptyBuffer
    /\ \E k \in 1..Len(conn[1].reqs) :
          /\ conn[1].reqs[k].len < FrameOverhead
          /\ MallocFails(RawUdevEnvLen(WireLen(conn[1].reqs[k]) - MSG_SIZE_PREFIX_LEN))

====
